---------------------------- MODULE Spec2Model ----------------------------
(***************************************************************************)
(* RiskGuard 360 - moteur de scoring (src/scoring_engine/scoring.py) and,  *)
(* in the last sections, the workflow of a dossier (src/dossiers).         *)
(*                                                                         *)
(* Representation of the program's numbers.  The engine computes on        *)
(* Python floats; the model computes on exact integers and fractions:      *)
(*   - money is in FCFA; a computed amount (mensualite, interets, ...) is  *)
(*     held to the nearest FCFA;                                           *)
(*   - a score is an integer number of hundredths (7000 is 70.00);         *)
(*   - the unrounded global score is in 1/10000 (800000 is 80.0000);       *)
(*   - the debt ratio is the exact fraction num/den while it is compared   *)
(*     and scored, and an integer number of 1/10000 once rounded;          *)
(*   - anciennete_emploi is in tenths of a year (25 is 2.5 years);         *)
(*   - a weight of POIDS is in hundredths (35 is 0.35);                    *)
(*   - taux_annuel is in 1/10000 (1500 is 0.15), so taux_annuel / 12 is    *)
(*     the fraction taux_annuel / 120000;                                  *)
(*   - (1 + taux_mensuel) ** n is held in fixed point at ECHELLE.          *)
(* round(x, k) is Python's round-half-to-even, applied to the exact value. *)
(* Where the exact value is a tie (61.595), the float the engine rounds    *)
(* may lie on either side of it, and its result may differ from the        *)
(* model's by one unit of the last place.                                  *)
(* A message built by an f-string is modelled by a tag naming its          *)
(* template; the numbers it interpolates are not part of the tag.          *)
(***************************************************************************)
EXTENDS Integers, Sequences, FiniteSets, TLC

VARIABLES
    POIDS,                  \* module-level dict POIDS
    SEUILS_RISQUE,          \* module-level dict SEUILS_RISQUE (insertion order)
    SEUILS_MONTANT_PROFIL,  \* module-level dict SEUILS_MONTANT_PROFIL
    profil,                 \* the ProfilClient object the caller holds
    appel,                  \* the last engine call: function, inputs, return
    journal,                \* the calls observed so far by the caller
    dossier,                \* the row of a DossierPret (src/dossiers/models.py)
    resultats_scoring,      \* the rows of ResultatScoring of that dossier
    audit_log,              \* the rows of AuditLog
    notifications,          \* the rows of Notification
    horloge                 \* what timezone.now() returns next

vars == <<POIDS, SEUILS_RISQUE, SEUILS_MONTANT_PROFIL, profil, appel, journal,
          dossier, resultats_scoring, audit_log, notifications, horloge>>

tables == <<POIDS, SEUILS_RISQUE, SEUILS_MONTANT_PROFIL>>

\* The tables of the application around the engine.
tables_django == <<dossier, resultats_scoring, audit_log, notifications, horloge>>

\* None in a nullable column; a value v of such a column is <<v>>.
None == <<>>

\* A DossierPret as creer_dossier saves it: etat 'soumis' by default, the
\* conseiller who created it, no date, no motif, no score.
DossierSoumis ==
    [etat              |-> "soumis",
     conseiller        |-> <<"c1">>,
     date_analyse      |-> None,
     date_decision     |-> None,
     motif_decision    |-> "",
     score_risque      |-> None,
     score_fraude      |-> None,
     niveau_risque     |-> "",
     recommandation    |-> "",
     explication_score |-> [intro |-> "", puces |-> <<>>],
     alerte_fraude     |-> FALSE,
     details_scoring   |-> None]

\* The tables with one dossier just created and nothing else.
BaseInitiale ==
    /\ dossier = DossierSoumis
    /\ resultats_scoring = <<>>
    /\ audit_log = <<>>
    /\ notifications = <<>>
    /\ horloge = 0

-----------------------------------------------------------------------------
(* Arithmetic of the representation *)

ECHELLE == 10^8

Max(a, b) == IF a >= b THEN a ELSE b

Min(a, b) == IF a <= b THEN a ELSE b

Abs(a) == IF a >= 0 THEN a ELSE -a

RECURSIVE PGCD(_, _)
PGCD(a, b) == IF b = 0 THEN a ELSE PGCD(b, a % b)

\* <<q, r>> of (q0 * c + t) / c, for 0 <= t
DivMod(q0, t, c) == <<q0 + (t \div c), t % c>>

\* The largest base B >= 2 of the digits of a with (2 * B - 1) * c in the
\* integer range: a step of the long multiplication stays in range.
Base(c) == Max(2, ((2147483647 \div c) + 1) \div 2)

\* <<q, r>> of (base * (h[1] * c + h[2]) + x) / c
Etape(h, x, base, c) == DivMod(base * h[1], base * h[2] + x, c)

\* <<q, r>> with a * b = q * c + r and 0 <= r < c, for a >= 0, 0 <= b < c,
\* computed digit by digit of a in base Base(c), without forming the
\* product a * b.
RECURSIVE MulDivPetit(_, _, _)
MulDivPetit(a, b, c) ==
    IF a = 0 \/ b = 0 THEN <<0, 0>>
    ELSE Etape(MulDivPetit(a \div Base(c), b, c), (a % Base(c)) * b, Base(c), c)

\* <<q, r>> of h with q0 more in the quotient
AjouteQuotient(h, q0) == <<h[1] + q0, h[2]>>

\* <<q, r>> with a * b = q * c + r and 0 <= r < c, for a, b >= 0 and c > 0:
\* directly when the product a * b is in the integer range.
MulDivQR(a, b, c) ==
    IF b = 0 \/ a <= 2147483647 \div b
    THEN DivMod(0, a * b, c)
    ELSE AjouteQuotient(MulDivPetit(a, b % c, c), a * (b \div c))

\* q + r/c rounded to an integer, half to even (Python's round).
ArrondiQR(q, r, c) ==
    IF 2 * r > c THEN q + 1
    ELSE IF 2 * r < c THEN q
    ELSE IF q % 2 = 0 THEN q ELSE q + 1

ArrondiDeQR(qr, c) == ArrondiQR(qr[1], qr[2], c)

Signe(a) == IF a >= 0 THEN 1 ELSE -1

\* a * b / c rounded to an integer, half to even; b >= 0, c > 0.
ArrondiMulDiv(a, b, c) == Signe(a) * ArrondiDeQR(MulDivQR(Abs(a), b, c), c)

\* a / c rounded to an integer, half to even; c > 0.
Arrondi(a, c) == ArrondiMulDiv(a, 1, c)

\* h * h at ECHELLE
Carre(h) == ArrondiMulDiv(h, h, ECHELLE)

\* x * (1 + tn/td) at ECHELLE
UneFoisDePlus(x, tn, td) == x + ArrondiMulDiv(x, tn, td)

\* (1 + tn/td) ** n at ECHELLE, by repeated squaring
RECURSIVE PuissanceParCarres(_, _, _)
PuissanceParCarres(tn, td, n) ==
    IF n <= 0 THEN ECHELLE
    ELSE IF n % 2 = 0 THEN Carre(PuissanceParCarres(tn, td, n \div 2))
    ELSE UneFoisDePlus(Carre(PuissanceParCarres(tn, td, n \div 2)), tn, td)

\* The powers of 1 + 0.15/12, the rate the engine fixes, computed once.
PuissancesQuinze == [n \in 0..120 |-> PuissanceParCarres(1, 80, n)]

Puissance(tn, td, n) ==
    IF tn = 1 /\ td = 80 /\ n \in DOMAIN PuissancesQuinze
    THEN PuissancesQuinze[n]
    ELSE PuissanceParCarres(tn, td, n)

-----------------------------------------------------------------------------
(* Constantes & Ponderations *)

POIDS_INITIAL ==
    [ratio_endettement |-> 35, historique_paiement |-> 30,
     stabilite_pro |-> 20, coherence_montant |-> 15]

\* A dict keeps its insertion order: the table is the sequence of its items.
SEUILS_RISQUE_INITIAL ==
    << [niveau |-> "Tres faible", bas |-> 80, haut |-> 100],
       [niveau |-> "Faible",      bas |-> 65, haut |-> 80],
       [niveau |-> "Modere",      bas |-> 50, haut |-> 65],
       [niveau |-> "Eleve",       bas |-> 35, haut |-> 50],
       [niveau |-> "Tres eleve",  bas |-> 20, haut |-> 35],
       [niveau |-> "Critique",    bas |-> 0,  haut |-> 20] >>

SEUILS_MONTANT_PROFIL_INITIAL ==
    [etudiant |-> 500000, salarie_junior |-> 5000000,
     salarie_confirme |-> 20000000, salarie_senior |-> 50000000,
     entrepreneur |-> 30000000, retraite |-> 10000000,
     entreprise |-> 200000000]

\* An exception leaving a function: the call returns no result.
Leve(e) == [leve |-> e]

Reussi(r) == r.leve = ""

\* n / d with both divided by g
Fraction(n, d, g) == [n |-> n \div g, d |-> d \div g]

\* The interest rate of a year as the fraction of a month, in lowest terms.
TauxMensuel(taux_annuel) ==
    Fraction(taux_annuel, 120000, PGCD(taux_annuel, 120000))

-----------------------------------------------------------------------------
(* Fonctions de scoring unitaires *)

\* montant * (t * (1 + t) ** n) / ((1 + t) ** n - 1), to the nearest FCFA:
\* montant * t.n * p / (p - ECHELLE), then divided by t.d
AnnuiteDePuissance(montant, t, p) ==
    IF p - ECHELLE = 0 THEN Leve("ZeroDivisionError")
    ELSE [leve |-> "",
          v    |-> Arrondi(MulDivQR(montant * t.n, p, p - ECHELLE)[1], t.d)]

Annuite(montant, t, n) == AnnuiteDePuissance(montant, t, Puissance(t.n, t.d, n))

\* montant / max(duree_mois, 1), to the nearest FCFA
MensualiteSansInteret(montant, duree_mois) ==
    IF Max(duree_mois, 1) = 0 THEN Leve("ZeroDivisionError")
    ELSE [leve |-> "", v |-> Arrondi(montant, Max(duree_mois, 1))]

\* q + r / c <= k, for <<q, r>> with 0 <= r < c
QRInferieurOuEgal(qr, k) == qr[1] < k \/ (qr[1] = k /\ qr[2] = 0)

\* ratio <= k / 100, for the ratio num / den, den > 0
RatioInferieurOuEgal(num, den, k) ==
    QRInferieurOuEgal(MulDivQR(num, 100, den), k)

\* q + reste / c rounded half to even, for reste >= 0
ArrondiAvecReste(q, reste, c) == ArrondiQR(q + (reste \div c), reste % c, c)

\* (entier + fraction / den) / w rounded half to even, fraction = <<q, r>>
\* being q + r / (w * den) already divided by w
PenteDesParts(entier, fraction, w, den) ==
    ArrondiAvecReste((entier \div w) + fraction[1],
                     (entier % w) * den + fraction[2], w * den)

\* Pente from cent = <<q, r>>, 100 * ratio as q + r / den
PenteDeCent(cent, den, a, w, pts) ==
    PenteDesParts((cent[1] - a) * 100 * pts,
                  MulDivQR(cent[2], 100 * pts, w * den), w, den)

\* ((ratio - a/100) / (w/100)) * pts in hundredths of a point, rounded half
\* to even: the part a band subtracts from its (even) base.  The ratio is
\* num / den with 100 * ratio >= a; 100 * ratio is split into its integer
\* part and its fraction so that no product leaves the integer range.
Pente(num, den, a, w, pts) ==
    PenteDeCent(MulDivQR(num, 100, den), den, a, w, pts)

\* ScoreBande with the divisor of band 2 (0.13) in band 3 as well.
ScoreBande_DiviseurRepete(k, num, den) ==
    CASE k = 1 -> 10000
      [] k = 2 -> 10000 - Pente(num, den, 20, 13, 30)
      [] k = 3 -> 7000 - Pente(num, den, 33, 13, 30)
      [] k = 4 -> 4000 - Pente(num, den, 45, 15, 25)
      [] OTHER -> Max(0, 1500 - Pente(num, den, 60, 40, 15))

\* ScoreBande without the max(0, ...) of the last band.
ScoreBande_SansPlancher(k, num, den) ==
    CASE k = 1 -> 10000
      [] k = 2 -> 10000 - Pente(num, den, 20, 13, 30)
      [] k = 3 -> 7000 - Pente(num, den, 33, 12, 30)
      [] k = 4 -> 4000 - Pente(num, den, 45, 15, 25)
      [] OTHER -> 1500 - Pente(num, den, 60, 40, 15)

\* The formula of band k of the score, for the ratio num / den: in
\* hundredths, already rounded.  Band 1 is ratio <= 0.20, band 5 the last.
ScoreBande(k, num, den) ==
    CASE k = 1 -> 10000
      [] k = 2 -> 10000 - Pente(num, den, 20, 13, 30)
      [] k = 3 -> 7000 - Pente(num, den, 33, 12, 30)
      [] k = 4 -> 4000 - Pente(num, den, 45, 15, 25)
      [] OTHER -> Max(0, 1500 - Pente(num, den, 60, 40, 15))

\* The band the if / elif chain selects for the ratio num / den.
BandeDuRatio(num, den) ==
    IF RatioInferieurOuEgal(num, den, 20) THEN 1
    ELSE IF RatioInferieurOuEgal(num, den, 33) THEN 2
    ELSE IF RatioInferieurOuEgal(num, den, 45) THEN 3
    ELSE IF RatioInferieurOuEgal(num, den, 60) THEN 4
    ELSE 5

ScoreDuRatio(num, den) == ScoreBande(BandeDuRatio(num, den), num, den)

\* mensualite: the annuity if taux_mensuel > 0 and duree_mois > 0, else
\* montant / max(duree_mois, 1); t is taux_mensuel
Mensualite(montant, t, duree_mois) ==
    IF t.n > 0 /\ duree_mois > 0
    THEN Annuite(montant, t, duree_mois)
    ELSE MensualiteSansInteret(montant, duree_mois)

\* ratio = (charges + dettes + mensualite) / revenu as the fraction num / den
RatioDeMensualite(mensualite, revenu, charges, dettes) ==
    IF ~Reussi(mensualite) THEN mensualite
    ELSE IF revenu = 0 THEN Leve("ZeroDivisionError")
    ELSE [leve |-> "", mensualite |-> mensualite.v,
          num |-> charges + dettes + mensualite.v, den |-> revenu]

\* The locals of calculer_score_endettement under revenu > 0: mensualite and
\* the ratio.
LocauxEndettement(revenu, charges, dettes, montant_demande, duree_mois) ==
    RatioDeMensualite(Mensualite(montant_demande, TauxMensuel(1500), duree_mois),
                      revenu, charges, dettes)

\* return round(score, 2), round(ratio, 4), from the locals l
ScoreDesLocaux(l) ==
    IF ~Reussi(l) THEN l
    ELSE [leve  |-> "",
          score |-> ScoreDuRatio(l.num, l.den),
          ratio |-> ArrondiMulDiv(l.num, 10000, l.den)]

\* calculer_score_endettement with the guard revenu < 0 in place of revenu <= 0.
calculer_score_endettement_ZeroAdmis(revenu, charges, dettes, montant_demande, duree_mois) ==
    IF revenu < 0 THEN [leve |-> "", score |-> 0, ratio |-> 10000]
    ELSE ScoreDesLocaux(LocauxEndettement(revenu, charges, dettes,
                                          montant_demande, duree_mois))

calculer_score_endettement(revenu, charges, dettes, montant_demande, duree_mois) ==
    IF revenu <= 0 THEN [leve |-> "", score |-> 0, ratio |-> 10000]
    ELSE ScoreDesLocaux(LocauxEndettement(revenu, charges, dettes,
                                          montant_demande, duree_mois))

\* calculer_score_historique without the max(0.0, ...) of its last branch.
calculer_score_historique_SansPlancher(incidents) ==
    IF incidents = 0 THEN 10000
    ELSE IF incidents = 1 THEN 7500
    ELSE IF incidents = 2 THEN 5000
    ELSE IF incidents = 3 THEN 2500
    ELSE 1000 - (incidents - 4) * 250

calculer_score_historique(incidents) ==
    IF incidents = 0 THEN 10000
    ELSE IF incidents = 1 THEN 7500
    ELSE IF incidents = 2 THEN 5000
    ELSE IF incidents = 3 THEN 2500
    ELSE Max(0, 1000 - (incidents - 4) * 250)

\* calculer_score_stabilite with the band [2, 5) divided by 5, the divisor of
\* the band [5, 10), instead of 3.
calculer_score_stabilite_PenteDeCinq(anciennete, age) ==
    LET score == IF anciennete >= 100 THEN 3 * 10000
                 ELSE IF anciennete >= 50 THEN 3 * (8500 + (anciennete - 50) * 30)
                 ELSE IF anciennete >= 20 THEN 3 * 6500 + (anciennete - 20) * 120
                 ELSE IF anciennete >= 10 THEN 3 * (4500 + (anciennete - 10) * 200)
                 ELSE 3 * (2000 + anciennete * 250)
        ajuste == IF 30 <= age /\ age <= 55 THEN Min(3 * 10000, score + 3 * 500)
                  ELSE IF age < 23 \/ age > 65 THEN Max(0, score - 3 * 1000)
                  ELSE score
    IN  Arrondi(Min(3 * 10000, Max(0, ajuste)), 3)

\* anciennete in tenths of a year; the score is carried in 1/300 of a point
\* (the band [2, 5) divides by 3) and rounded to hundredths at the end.
calculer_score_stabilite(anciennete, age) ==
    LET score == IF anciennete >= 100 THEN 3 * 10000
                 ELSE IF anciennete >= 50 THEN 3 * (8500 + (anciennete - 50) * 30)
                 ELSE IF anciennete >= 20 THEN 3 * 6500 + (anciennete - 20) * 200
                 ELSE IF anciennete >= 10 THEN 3 * (4500 + (anciennete - 10) * 200)
                 ELSE 3 * (2000 + anciennete * 250)
        ajuste == IF 30 <= age /\ age <= 55 THEN Min(3 * 10000, score + 3 * 500)
                  ELSE IF age < 23 \/ age > 65 THEN Max(0, score - 3 * 1000)
                  ELSE score
    IN  Arrondi(Min(3 * 10000, Max(0, ajuste)), 3)

\* diviseur_ratio_revenu without the floor of 1.
diviseur_ratio_revenu_SansPlancher(p) == p.revenu_mensuel

\* profil.montant_demande / max(profil.revenu_mensuel, 1): its divisor
diviseur_ratio_revenu(p) == Max(p.revenu_mensuel, 1)

\* calculer_score_coherence without the assignment of the 'entreprise'
\* threshold: the threshold of the declared profession for every client.
calculer_score_coherence_SeuilDeProfession(p, seuils_montant) ==
    IF p.type_client = "entreprise" /\ "entreprise" \notin DOMAIN seuils_montant
    THEN Leve("KeyError")
    ELSE
    LET seuil == IF p.profession \in DOMAIN seuils_montant
                 THEN seuils_montant[p.profession]
                 ELSE 10000000
        \* ratio_seuil = montant / seuil if seuil > 0 else 999
        tres_superieur == IF seuil > 0 THEN p.montant_demande > 2 * seuil ELSE TRUE
        superieur      == IF seuil > 0 THEN p.montant_demande > seuil ELSE TRUE
        d1 == IF tres_superieur THEN [moins |-> 60, alertes |-> <<"ALERTE_SEUIL_PROFIL">>]
              ELSE IF superieur THEN [moins |-> 30, alertes |-> <<"ATTENTION_SEUIL_PROFIL">>]
              ELSE [moins |-> 0, alertes |-> <<>>]
        dr == diviseur_ratio_revenu(p)
        d2 == IF dr > 0 /\ p.montant_demande > 60 * dr
              THEN [moins |-> 30, alertes |-> <<"ALERTE_RATIO_REVENU">>]
              ELSE IF dr > 0 /\ p.montant_demande > 48 * dr
              THEN [moins |-> 15, alertes |-> <<"ATTENTION_RATIO_REVENU">>]
              ELSE [moins |-> 0, alertes |-> <<>>]
        d3 == IF p.duree_pret_mois > 84
              THEN [moins |-> 10, alertes |-> <<"DUREE_TRES_LONGUE">>]
              ELSE [moins |-> 0, alertes |-> <<>>]
        \* age_fin_pret = age + duree / 12 > 70
        d4 == IF 12 * p.age + p.duree_pret_mois > 12 * 70
              THEN [moins |-> 15, alertes |-> <<"AGE_FIN_PRET">>]
              ELSE [moins |-> 0, alertes |-> <<>>]
    IN  IF dr = 0 THEN Leve("ZeroDivisionError")
        ELSE [leve    |-> "",
              score   |-> 100 * Max(0, 100 - d1.moins - d2.moins - d3.moins - d4.moins),
              alertes |-> d1.alertes \o d2.alertes \o d3.alertes \o d4.alertes]

calculer_score_coherence(p, seuils_montant) ==
    IF p.type_client = "entreprise" /\ "entreprise" \notin DOMAIN seuils_montant
    THEN Leve("KeyError")
    ELSE
    LET seuil == IF p.type_client = "entreprise" THEN seuils_montant["entreprise"]
                 ELSE IF p.profession \in DOMAIN seuils_montant
                      THEN seuils_montant[p.profession]
                      ELSE 10000000
        \* ratio_seuil = montant / seuil if seuil > 0 else 999
        tres_superieur == IF seuil > 0 THEN p.montant_demande > 2 * seuil ELSE TRUE
        superieur      == IF seuil > 0 THEN p.montant_demande > seuil ELSE TRUE
        d1 == IF tres_superieur THEN [moins |-> 60, alertes |-> <<"ALERTE_SEUIL_PROFIL">>]
              ELSE IF superieur THEN [moins |-> 30, alertes |-> <<"ATTENTION_SEUIL_PROFIL">>]
              ELSE [moins |-> 0, alertes |-> <<>>]
        dr == diviseur_ratio_revenu(p)
        d2 == IF dr > 0 /\ p.montant_demande > 60 * dr
              THEN [moins |-> 30, alertes |-> <<"ALERTE_RATIO_REVENU">>]
              ELSE IF dr > 0 /\ p.montant_demande > 48 * dr
              THEN [moins |-> 15, alertes |-> <<"ATTENTION_RATIO_REVENU">>]
              ELSE [moins |-> 0, alertes |-> <<>>]
        d3 == IF p.duree_pret_mois > 84
              THEN [moins |-> 10, alertes |-> <<"DUREE_TRES_LONGUE">>]
              ELSE [moins |-> 0, alertes |-> <<>>]
        \* age_fin_pret = age + duree / 12 > 70
        d4 == IF 12 * p.age + p.duree_pret_mois > 12 * 70
              THEN [moins |-> 15, alertes |-> <<"AGE_FIN_PRET">>]
              ELSE [moins |-> 0, alertes |-> <<>>]
    IN  IF dr = 0 THEN Leve("ZeroDivisionError")
        ELSE [leve    |-> "",
              score   |-> 100 * Max(0, 100 - d1.moins - d2.moins - d3.moins - d4.moins),
              alertes |-> d1.alertes \o d2.alertes \o d3.alertes \o d4.alertes]

-----------------------------------------------------------------------------
(* Score de fraude *)

\* seuils_revenus, local to calculer_score_fraude
seuils_revenus ==
    [etudiant |-> 200000, salarie_junior |-> 500000,
     salarie_confirme |-> 2000000, retraite |-> 1000000]

\* calculer_score_fraude where the first rule adds its 40 points without an
\* alert, as its elif branch does.
calculer_score_fraude_IncoherenceSilencieuse(p, score_coherence) ==
    LET r1 == IF score_coherence <= 2000
              THEN [plus |-> 40, alertes |-> <<>>]
              ELSE IF score_coherence <= 5000 THEN [plus |-> 20, alertes |-> <<>>]
              ELSE [plus |-> 0, alertes |-> <<>>]
        r2 == IF p.revenu_mensuel > 0
              THEN IF p.montant_demande > 100 * p.revenu_mensuel
                   THEN [plus |-> 30, alertes |-> <<"MONTANT_X_REVENU">>]
                   ELSE IF p.montant_demande > 60 * p.revenu_mensuel
                   THEN [plus |-> 15, alertes |-> <<>>]
                   ELSE [plus |-> 0, alertes |-> <<>>]
              ELSE [plus |-> 0, alertes |-> <<>>]
        r3 == IF /\ p.profession \in DOMAIN seuils_revenus
                 /\ seuils_revenus[p.profession] # 0
                 /\ p.revenu_mensuel > seuils_revenus[p.profession] * 3
              THEN [plus |-> 15, alertes |-> <<"REVENU_ANORMAL">>]
              ELSE [plus |-> 0, alertes |-> <<>>]
        r4 == IF p.revenu_mensuel > 300000 /\ p.charges_mensuelles = 0
              THEN [plus |-> 10, alertes |-> <<"AUCUNE_CHARGE">>]
              ELSE [plus |-> 0, alertes |-> <<>>]
        r5 == IF p.incidents_paiement_12m >= 3 /\ p.montant_demande > 10000000
              THEN [plus |-> 15, alertes |-> <<"INCIDENTS_MONTANT">>]
              ELSE [plus |-> 0, alertes |-> <<>>]
    IN  [score   |-> 100 * Min(100, r1.plus + r2.plus + r3.plus + r4.plus + r5.plus),
         alertes |-> r1.alertes \o r2.alertes \o r3.alertes \o r4.alertes \o r5.alertes]

\* calculer_score_fraude without the min(100, ...) of its return.
calculer_score_fraude_SansPlafond(p, score_coherence) ==
    LET r1 == IF score_coherence <= 2000
              THEN [plus |-> 40, alertes |-> <<"INCOHERENCE_MAJEURE">>]
              ELSE IF score_coherence <= 5000 THEN [plus |-> 20, alertes |-> <<>>]
              ELSE [plus |-> 0, alertes |-> <<>>]
        \* ratio = montant_demande / revenu_mensuel, under revenu_mensuel > 0
        r2 == IF p.revenu_mensuel > 0
              THEN IF p.montant_demande > 100 * p.revenu_mensuel
                   THEN [plus |-> 30, alertes |-> <<"MONTANT_X_REVENU">>]
                   ELSE IF p.montant_demande > 60 * p.revenu_mensuel
                   THEN [plus |-> 15, alertes |-> <<>>]
                   ELSE [plus |-> 0, alertes |-> <<>>]
              ELSE [plus |-> 0, alertes |-> <<>>]
        \* seuils_revenus.get(profession) is None for a profession not in it
        r3 == IF /\ p.profession \in DOMAIN seuils_revenus
                 /\ seuils_revenus[p.profession] # 0
                 /\ p.revenu_mensuel > seuils_revenus[p.profession] * 3
              THEN [plus |-> 15, alertes |-> <<"REVENU_ANORMAL">>]
              ELSE [plus |-> 0, alertes |-> <<>>]
        r4 == IF p.revenu_mensuel > 300000 /\ p.charges_mensuelles = 0
              THEN [plus |-> 10, alertes |-> <<"AUCUNE_CHARGE">>]
              ELSE [plus |-> 0, alertes |-> <<>>]
        r5 == IF p.incidents_paiement_12m >= 3 /\ p.montant_demande > 10000000
              THEN [plus |-> 15, alertes |-> <<"INCIDENTS_MONTANT">>]
              ELSE [plus |-> 0, alertes |-> <<>>]
    IN  [score   |-> 100 * (r1.plus + r2.plus + r3.plus + r4.plus + r5.plus),
         alertes |-> r1.alertes \o r2.alertes \o r3.alertes \o r4.alertes \o r5.alertes]

calculer_score_fraude(p, score_coherence) ==
    LET r1 == IF score_coherence <= 2000
              THEN [plus |-> 40, alertes |-> <<"INCOHERENCE_MAJEURE">>]
              ELSE IF score_coherence <= 5000 THEN [plus |-> 20, alertes |-> <<>>]
              ELSE [plus |-> 0, alertes |-> <<>>]
        \* ratio = montant_demande / revenu_mensuel, under revenu_mensuel > 0
        r2 == IF p.revenu_mensuel > 0
              THEN IF p.montant_demande > 100 * p.revenu_mensuel
                   THEN [plus |-> 30, alertes |-> <<"MONTANT_X_REVENU">>]
                   ELSE IF p.montant_demande > 60 * p.revenu_mensuel
                   THEN [plus |-> 15, alertes |-> <<>>]
                   ELSE [plus |-> 0, alertes |-> <<>>]
              ELSE [plus |-> 0, alertes |-> <<>>]
        \* seuils_revenus.get(profession) is None for a profession not in it
        r3 == IF /\ p.profession \in DOMAIN seuils_revenus
                 /\ seuils_revenus[p.profession] # 0
                 /\ p.revenu_mensuel > seuils_revenus[p.profession] * 3
              THEN [plus |-> 15, alertes |-> <<"REVENU_ANORMAL">>]
              ELSE [plus |-> 0, alertes |-> <<>>]
        r4 == IF p.revenu_mensuel > 300000 /\ p.charges_mensuelles = 0
              THEN [plus |-> 10, alertes |-> <<"AUCUNE_CHARGE">>]
              ELSE [plus |-> 0, alertes |-> <<>>]
        r5 == IF p.incidents_paiement_12m >= 3 /\ p.montant_demande > 10000000
              THEN [plus |-> 15, alertes |-> <<"INCIDENTS_MONTANT">>]
              ELSE [plus |-> 0, alertes |-> <<>>]
    IN  [score   |-> 100 * Min(100, r1.plus + r2.plus + r3.plus + r4.plus + r5.plus),
         alertes |-> r1.alertes \o r2.alertes \o r3.alertes \o r4.alertes \o r5.alertes]

-----------------------------------------------------------------------------
(* Explainable AI - justification du score *)

ordre_impact(impact) ==
    CASE impact = "tres negatif" -> 0
      [] impact = "negatif"      -> 1
      [] impact = "positif"      -> 2
      [] impact = "tres positif" -> 3
      [] OTHER                   -> 2

\* list.sort(key=...) is stable: the factors of each rank keep their order.
TriParImpact(facteurs) ==
    LET DeRang(k) == SelectSeq(facteurs, LAMBDA f : ordre_impact(f.impact) = k)
    IN  DeRang(0) \o DeRang(1) \o DeRang(2) \o DeRang(3)

Facteur(nom, impact, score) == [facteur |-> nom, impact |-> impact, score |-> score]

\* generer_explication without the intro of a moderate score: every score
\* below 65 announces reasons.
generer_explication_SansIntroModeree(p, score_end, score_hist, score_stab, score_coh, score_global, score_fraude) ==
    LET endettement ==
            IF score_end < 4000 THEN <<"ENDETTEMENT_TRES_ELEVE">>
            ELSE IF score_end < 6000 THEN <<"ENDETTEMENT_DEPASSE_SEUIL">>
            ELSE <<>>
        historique == IF score_hist < 5000 THEN <<"HISTORIQUE_PREOCCUPANT">> ELSE <<>>
        stabilite == IF score_stab < 4500 THEN <<"STABILITE_FAIBLE">> ELSE <<>>
        coherence == IF score_coh < 5000 THEN <<"MONTANT_INCOHERENT">> ELSE <<>>
        fraude == IF score_fraude >= 5000 THEN <<"SCORE_FRAUDE_ELEVE">> ELSE <<>>
        intro == IF score_global >= 650000 THEN "favorable"
                 ELSE IF score_global >= 350000 THEN "faible, en raison de :"
                 ELSE "critique, facteurs majeurs :"
    IN  [explication |-> [intro |-> intro,
                          puces |-> endettement \o historique \o stabilite
                                    \o coherence \o fraude],
         facteurs    |-> <<>>]

\* score_global is the unrounded global score, in 1/10000.
generer_explication(p, score_end, score_hist, score_stab, score_coh, score_global, score_fraude) ==
    LET endettement ==
            IF score_end < 4000
            THEN [f |-> <<Facteur("Ratio d'endettement", "tres negatif", score_end)>>,
                  e |-> <<"ENDETTEMENT_TRES_ELEVE">>]
            ELSE IF score_end < 6000
            THEN [f |-> <<Facteur("Ratio d'endettement", "negatif", score_end)>>,
                  e |-> <<"ENDETTEMENT_DEPASSE_SEUIL">>]
            ELSE IF score_end >= 8000
            THEN [f |-> <<Facteur("Ratio d'endettement", "tres positif", score_end)>>,
                  e |-> <<>>]
            ELSE [f |-> <<>>, e |-> <<>>]
        historique ==
            IF score_hist < 5000
            THEN [f |-> <<Facteur("Historique de paiement", "tres negatif", score_hist)>>,
                  e |-> <<"HISTORIQUE_PREOCCUPANT">>]
            ELSE IF score_hist < 7500
            THEN [f |-> <<Facteur("Historique de paiement", "negatif", score_hist)>>,
                  e |-> <<>>]
            ELSE IF score_hist = 10000
            THEN [f |-> <<Facteur("Historique de paiement", "tres positif", score_hist)>>,
                  e |-> <<>>]
            ELSE [f |-> <<>>, e |-> <<>>]
        stabilite ==
            IF score_stab < 4500
            THEN [f |-> <<Facteur("Stabilite professionnelle", "negatif", score_stab)>>,
                  e |-> <<"STABILITE_FAIBLE">>]
            ELSE IF score_stab >= 8500
            THEN [f |-> <<Facteur("Stabilite professionnelle", "positif", score_stab)>>,
                  e |-> <<>>]
            ELSE [f |-> <<>>, e |-> <<>>]
        coherence ==
            IF score_coh < 5000
            THEN [f |-> <<Facteur("Coherence montant/profil", "tres negatif", score_coh)>>,
                  e |-> <<"MONTANT_INCOHERENT">>]
            ELSE [f |-> <<>>, e |-> <<>>]
        fraude == IF score_fraude >= 5000 THEN <<"SCORE_FRAUDE_ELEVE">> ELSE <<>>
        intro == IF score_global >= 650000 THEN "favorable"
                 ELSE IF score_global >= 500000 THEN "modere"
                 ELSE IF score_global >= 350000 THEN "faible, en raison de :"
                 ELSE "critique, facteurs majeurs :"
    IN  [explication |-> [intro |-> intro,
                          puces |-> endettement.e \o historique.e \o stabilite.e
                                    \o coherence.e \o fraude],
         facteurs    |-> TriParImpact(endettement.f \o historique.f
                                      \o stabilite.f \o coherence.f)]

-----------------------------------------------------------------------------
(* Moteur de scoring principal *)

\* An alert string; marque is the prefix the aggregator puts before a fraud
\* alert, "" for an alert without prefix.
Texte(t) == [marque |-> "", texte |-> t]

PrefixeFraude(t) == [marque |-> "FRAUDE", texte |-> t]

Textes(liste) == [i \in 1..Len(liste) |-> Texte(liste[i])]

PrefixesFraude(liste) == [i \in 1..Len(liste) |-> PrefixeFraude(liste[i])]

\* NiveauDeRisque without the break: the last band that matches.
NiveauDeRisque_DerniereBande(score_global, seuils_risque) ==
    LET bandes == {i \in DOMAIN seuils_risque :
                      /\ seuils_risque[i].bas * 10000 <= score_global
                      /\ score_global <= seuils_risque[i].haut * 10000}
    IN  IF bandes = {} THEN "Critique"
        ELSE seuils_risque[CHOOSE i \in bandes : \A j \in bandes : i >= j].niveau

\* for niveau, (seuil_bas, seuil_haut) in SEUILS_RISQUE.items(): first match,
\* RiskLevel.CRITIQUE when no band matches.  score_global is in 1/10000.
NiveauDeRisque(score_global, seuils_risque) ==
    LET bandes == {i \in DOMAIN seuils_risque :
                      /\ seuils_risque[i].bas * 10000 <= score_global
                      /\ score_global <= seuils_risque[i].haut * 10000}
    IN  IF bandes = {} THEN "Critique"
        ELSE seuils_risque[CHOOSE i \in bandes : \A j \in bandes : i <= j].niveau

\* DetectionFraude where the last test assigns its outcome to alerte_fraude
\* instead of raising it.
DetectionFraude_DernierTestSeul(p, score_fraude, score_coherence) ==
    p.revenu_mensuel > 0 /\ p.montant_demande > 100 * p.revenu_mensuel

\* alerte_fraude, as the three assignments of the code
DetectionFraude(p, score_fraude, score_coherence) ==
    LET a1 == score_fraude >= 5000
        a2 == IF score_coherence <= 2000 THEN TRUE ELSE a1
    IN  IF p.revenu_mensuel > 0 /\ p.montant_demande > 100 * p.revenu_mensuel
        THEN TRUE ELSE a2

\* Recommandation where the agreement in principle starts at 80, the floor of
\* the tier Tres faible, instead of 65.
Recommandation_AccordDesQuatreVingts(alerte_fraude, score_global) ==
    IF alerte_fraude THEN "REFUS IMMEDIAT"
    ELSE IF score_global >= 800000 THEN "ACCORD DE PRINCIPE"
    ELSE IF score_global >= 500000 THEN "ETUDE APPROFONDIE"
    ELSE IF score_global >= 350000 THEN "RISQUE ELEVE"
    ELSE "REFUS RECOMMANDE"

\* Recommandation with the fraud test after the test of the best score.
Recommandation_FraudeApresAccord(alerte_fraude, score_global) ==
    IF score_global >= 650000 THEN "ACCORD DE PRINCIPE"
    ELSE IF alerte_fraude THEN "REFUS IMMEDIAT"
    ELSE IF score_global >= 500000 THEN "ETUDE APPROFONDIE"
    ELSE IF score_global >= 350000 THEN "RISQUE ELEVE"
    ELSE "REFUS RECOMMANDE"

Recommandation(alerte_fraude, score_global) ==
    IF alerte_fraude THEN "REFUS IMMEDIAT"
    ELSE IF score_global >= 650000 THEN "ACCORD DE PRINCIPE"
    ELSE IF score_global >= 500000 THEN "ETUDE APPROFONDIE"
    ELSE IF score_global >= 350000 THEN "RISQUE ELEVE"
    ELSE "REFUS RECOMMANDE"

\* AlertesGlobales with the fraud alerts put before the aggregator's own.
AlertesGlobales_FraudeAvant(p, alertes_coherence, ratio, alertes_fraude) ==
    Textes(alertes_coherence)
    \o PrefixesFraude(alertes_fraude)
    \o (IF ratio > 5000 THEN <<Texte("RATIO_ENDETTEMENT_CRITIQUE")>> ELSE <<>>)
    \o (IF p.incidents_paiement_12m >= 3
        THEN <<Texte("HISTORIQUE_PREOCCUPANT")>> ELSE <<>>)

\* The alert list of the result, from the scorers' lists.
AlertesGlobales(p, alertes_coherence, ratio, alertes_fraude) ==
    Textes(alertes_coherence)
    \o (IF ratio > 5000 THEN <<Texte("RATIO_ENDETTEMENT_CRITIQUE")>> ELSE <<>>)
    \o (IF p.incidents_paiement_12m >= 3
        THEN <<Texte("HISTORIQUE_PREOCCUPANT")>> ELSE <<>>)
    \o PrefixesFraude(alertes_fraude)

\* MensualiteDetails with the rate of the year, 0.15, taken as the rate of a
\* month.
MensualiteDetails_TauxDeLAnnee(p) ==
    IF p.duree_pret_mois > 0
    THEN Annuite(p.montant_demande, Fraction(1500, 10000, PGCD(1500, 10000)), p.duree_pret_mois)
    ELSE [leve |-> "", v |-> 0]

\* mensualite of the details: 0 unless duree_pret_mois > 0
MensualiteDetails(p) ==
    IF p.duree_pret_mois > 0
    THEN Annuite(p.montant_demande, TauxMensuel(1500), p.duree_pret_mois)
    ELSE [leve |-> "", v |-> 0]

\* ScoreGlobalPondere with the weights of stabilite_pro and coherence_montant
\* exchanged.
ScoreGlobalPondere_PoidsEchanges(score_endettement, score_historique, score_stabilite, score_coherence, poids) ==
    score_endettement * poids["ratio_endettement"]
    + score_historique * poids["historique_paiement"]
    + score_stabilite * poids["coherence_montant"]
    + score_coherence * poids["stabilite_pro"]

\* score_global before it is rounded, in 1/10000
ScoreGlobalPondere(score_endettement, score_historique, score_stabilite, score_coherence, poids) ==
    score_endettement * poids["ratio_endettement"]
    + score_historique * poids["historique_paiement"]
    + score_stabilite * poids["stabilite_pro"]
    + score_coherence * poids["coherence_montant"]

\* Steps 5 to 9 of calculer_score_risque: the local variables when it
\* reaches its return.
LocauxApresFraude(p, seuils_risque, end, score_historique, score_stabilite, coh, score_global, fra, alerte_fraude, expl, mensualite) ==
    IF ~Reussi(mensualite) THEN mensualite
    ELSE [leve              |-> "",
          score_endettement |-> end.score,
          ratio             |-> end.ratio,
          score_historique  |-> score_historique,
          score_stabilite   |-> score_stabilite,
          score_coherence   |-> coh.score,
          score_global      |-> score_global,
          score_fraude      |-> fra.score,
          niveau_risque     |-> NiveauDeRisque(score_global, seuils_risque),
          alertes           |-> AlertesGlobales(p, coh.alertes, end.ratio, fra.alertes),
          alerte_fraude     |-> alerte_fraude,
          explication       |-> expl.explication,
          facteurs          |-> expl.facteurs,
          recommandation    |-> Recommandation(alerte_fraude, score_global),
          mensualite        |-> mensualite.v]

\* Steps 4 to 9, once score_global and the fraud score are known.
LocauxApresScoreGlobal(p, seuils_risque, end, score_historique, score_stabilite, coh, score_global, fra) ==
    LocauxApresFraude(p, seuils_risque, end, score_historique, score_stabilite,
        coh, score_global, fra,
        DetectionFraude(p, fra.score, coh.score),
        generer_explication(p, end.score, score_historique, score_stabilite,
                            coh.score, score_global, fra.score),
        MensualiteDetails(p))

\* Steps 2 to 9, once the four scorers have returned (or raised).
LocauxApresScores(p, poids, seuils_risque, end, score_historique, score_stabilite, coh) ==
    IF ~Reussi(end) THEN end
    ELSE IF ~Reussi(coh) THEN coh
    ELSE IF {"ratio_endettement", "historique_paiement", "stabilite_pro",
             "coherence_montant"} \ DOMAIN poids # {} THEN Leve("KeyError")
    ELSE LocauxApresScoreGlobal(p, seuils_risque, end, score_historique,
             score_stabilite, coh,
             ScoreGlobalPondere(end.score, score_historique, score_stabilite,
                                coh.score, poids),
             calculer_score_fraude(p, coh.score))

\* The local variables of calculer_score_risque when it reaches its return,
\* or the exception that left it.
LocauxScoreRisque(p, poids, seuils_risque, seuils_montant) ==
    LocauxApresScores(p, poids, seuils_risque,
        calculer_score_endettement(p.revenu_mensuel, p.charges_mensuelles,
            p.dettes_existantes, p.montant_demande, p.duree_pret_mois),
        calculer_score_historique(p.incidents_paiement_12m),
        calculer_score_stabilite(p.anciennete_emploi, p.age),
        calculer_score_coherence(p, seuils_montant))

\* details["poids_appliques"] is the dict POIDS itself, not a copy of it.
REF_POIDS == "<POIDS>"

\* The return of calculer_score_risque from its locals l: the details and
\* the ResultatScoring, or the exception that left the function.
Retour(p, l) ==
    IF ~Reussi(l) THEN l
    ELSE [leve                |-> "",
          score_global        |-> Arrondi(l.score_global, 100),
          niveau_risque       |-> l.niveau_risque,
          score_endettement   |-> l.score_endettement,
          score_historique    |-> l.score_historique,
          score_stabilite     |-> l.score_stabilite,
          score_coherence     |-> l.score_coherence,
          score_fraude        |-> l.score_fraude,
          ratio_endettement   |-> l.ratio,
          alertes             |-> l.alertes,
          recommandation      |-> l.recommandation,
          explication         |-> l.explication,
          alerte_fraude       |-> l.alerte_fraude,
          details             |->
              [poids_appliques        |-> REF_POIDS,
               mensualite_estimee     |-> l.mensualite,
               capacite_remboursement |-> p.revenu_mensuel - p.charges_mensuelles
                                          - p.dettes_existantes,
               taux_annuel            |-> "15%"],
          facteurs_importants |-> l.facteurs]

calculer_score_risque(p, poids, seuils_risque, seuils_montant) ==
    Retour(p, LocauxScoreRisque(p, poids, seuils_risque, seuils_montant))

-----------------------------------------------------------------------------
(* Simulation de pret *)

\* LigneSiGardee with > in place of >= in the test of the last months.
LigneSiGardee_DernierMoisSeul(mois, duree_mois, capital_restant, mensualite, interets) ==
    IF mois <= 3 \/ mois > duree_mois - 1
    THEN <<[mois |-> mois, mensualite |-> mensualite,
            capital |-> mensualite - interets, interets |-> interets,
            capital_restant |-> Max(0, capital_restant - (mensualite - interets))]>>
    ELSE <<>>

\* The row of a month if the schedule keeps it: the first three months and
\* the last two.  interets is capital_restant * taux_mensuel.
LigneSiGardee(mois, duree_mois, capital_restant, mensualite, interets) ==
    IF mois <= 3 \/ mois >= duree_mois - 1
    THEN <<[mois |-> mois, mensualite |-> mensualite,
            capital |-> mensualite - interets, interets |-> interets,
            capital_restant |-> Max(0, capital_restant - (mensualite - interets))]>>
    ELSE <<>>

\* The rows of the schedule from month mois on; capital_restant is the
\* balance before that month.
RECURSIVE Amortissement(_, _, _, _, _)
Amortissement(mois, duree_mois, capital_restant, mensualite, t) ==
    IF mois > duree_mois THEN <<>>
    ELSE LigneSiGardee(mois, duree_mois, capital_restant, mensualite,
                       ArrondiMulDiv(capital_restant, t.n, t.d))
         \o Amortissement(mois + 1, duree_mois,
                capital_restant
                - (mensualite - ArrondiMulDiv(capital_restant, t.n, t.d)),
                mensualite, t)

\* SimulationDeMensualite where eligible is a boolean: False when the
\* income is not positive.
SimulationDeMensualite_InconnuEstFaux(montant, duree_mois, taux_annuel, revenu_mensuel, charges, t, m) ==
    IF ~Reussi(m) THEN m
    ELSE [leve                   |-> "",
          montant                |-> montant,
          duree_mois             |-> duree_mois,
          taux_annuel            |-> taux_annuel,
          taux_mensuel           |-> ArrondiMulDiv(taux_annuel, 100000, 120000),
          mensualite             |-> m.v,
          cout_total             |-> m.v * duree_mois,
          cout_credit            |-> m.v * duree_mois - montant,
          capacite_remboursement |-> IF revenu_mensuel > 0
                                     THEN revenu_mensuel - charges ELSE 0,
          \* round(ratio_endettement * 100, 1), in tenths of a percent
          ratio_endettement      |-> IF revenu_mensuel > 0
                                     THEN ArrondiMulDiv(m.v, 1000, revenu_mensuel)
                                     ELSE 0,
          \* revenu_mensuel > 0 and ratio_endettement < 0.33
          eligible               |-> IF revenu_mensuel > 0
                                     THEN IF MulDivQR(m.v, 100, revenu_mensuel)[1] < 33
                                          THEN "True" ELSE "False"
                                     ELSE "False",
          amortissement          |-> Amortissement(1, duree_mois, montant, m.v, t)]

\* simuler_pret after its mensualite m, with taux_mensuel as the fraction t
SimulationDeMensualite(montant, duree_mois, taux_annuel, revenu_mensuel, charges, t, m) ==
    IF ~Reussi(m) THEN m
    ELSE [leve                   |-> "",
          montant                |-> montant,
          duree_mois             |-> duree_mois,
          taux_annuel            |-> taux_annuel,
          taux_mensuel           |-> ArrondiMulDiv(taux_annuel, 100000, 120000),
          mensualite             |-> m.v,
          cout_total             |-> m.v * duree_mois,
          cout_credit            |-> m.v * duree_mois - montant,
          capacite_remboursement |-> IF revenu_mensuel > 0
                                     THEN revenu_mensuel - charges ELSE 0,
          \* round(ratio_endettement * 100, 1), in tenths of a percent
          ratio_endettement      |-> IF revenu_mensuel > 0
                                     THEN ArrondiMulDiv(m.v, 1000, revenu_mensuel)
                                     ELSE 0,
          \* ratio_endettement < 0.33 if revenu_mensuel > 0 else None
          eligible               |-> IF revenu_mensuel > 0
                                     THEN IF MulDivQR(m.v, 100, revenu_mensuel)[1] < 33
                                          THEN "True" ELSE "False"
                                     ELSE "None",
          amortissement          |-> Amortissement(1, duree_mois, montant, m.v, t)]

simuler_pret(montant, duree_mois, taux_annuel, revenu_mensuel, charges) ==
    SimulationDeMensualite(montant, duree_mois, taux_annuel, revenu_mensuel, charges,
        TauxMensuel(taux_annuel),
        Mensualite(montant, TauxMensuel(taux_annuel), duree_mois))

-----------------------------------------------------------------------------
(* The engine and its caller *)

Aucun == [fn |-> "aucun"]

\* What the caller sees of a call of calculer_score_risque: the profile it
\* passed (entree), the profile q the function worked on, the locals and the
\* return.
AppelScoreRisque(entree, q, l) ==
    [fn |-> "calculer_score_risque", entree |-> entree, locaux |-> l,
     sortie |-> Retour(q, l)]

\* CalculerScoreRisque where the threshold of an entreprise is stored in the
\* table, under the profession of the profile, instead of the local seuil.
CalculerScoreRisque_EcritSeuils ==
    /\ appel' = AppelScoreRisque(profil, profil,
                     LocauxScoreRisque(profil, POIDS, SEUILS_RISQUE,
                                       SEUILS_MONTANT_PROFIL))
    /\ SEUILS_MONTANT_PROFIL' =
          IF profil.type_client = "entreprise"
             /\ profil.profession \in DOMAIN SEUILS_MONTANT_PROFIL
          THEN [SEUILS_MONTANT_PROFIL EXCEPT
                   ![profil.profession] = SEUILS_MONTANT_PROFIL["entreprise"]]
          ELSE SEUILS_MONTANT_PROFIL
    /\ UNCHANGED <<POIDS, SEUILS_RISQUE, profil>>

\* CalculerScoreRisque where the tenor of the profile is set to max(duree, 1)
\* in the object itself before it is used.
CalculerScoreRisque_BorneLeProfil ==
    /\ profil' = [profil EXCEPT !.duree_pret_mois = Max(@, 1)]
    /\ appel' = AppelScoreRisque(profil, profil',
                     LocauxScoreRisque(profil', POIDS, SEUILS_RISQUE,
                                       SEUILS_MONTANT_PROFIL))
    /\ UNCHANGED <<POIDS, SEUILS_RISQUE, SEUILS_MONTANT_PROFIL>>

\* profil is passed to calculer_score_risque, which reads it and the tables.
\* appel keeps the locals of the call beside what it returned.
CalculerScoreRisque ==
    /\ appel' = AppelScoreRisque(profil, profil,
                     LocauxScoreRisque(profil, POIDS, SEUILS_RISQUE,
                                       SEUILS_MONTANT_PROFIL))
    /\ UNCHANGED <<POIDS, SEUILS_RISQUE, SEUILS_MONTANT_PROFIL, profil>>

SimulerPret(montant, duree_mois, taux_annuel, revenu_mensuel, charges) ==
    /\ appel' = [fn     |-> "simuler_pret",
                 entree |-> [montant |-> montant, duree_mois |-> duree_mois,
                             taux_annuel |-> taux_annuel,
                             revenu_mensuel |-> revenu_mensuel, charges |-> charges],
                 locaux |-> [leve |-> ""],
                 sortie |-> simuler_pret(montant, duree_mois, taux_annuel,
                                         revenu_mensuel, charges)]
    /\ UNCHANGED <<POIDS, SEUILS_RISQUE, SEUILS_MONTANT_PROFIL, profil>>

-----------------------------------------------------------------------------
(* The inputs of the checks *)

\* "artisan" is in neither SEUILS_MONTANT_PROFIL nor seuils_revenus.
ProfilsCroises ==
    [type_client : {"particulier"}, profession : {"etudiant", "artisan"},
     revenu_mensuel : {0, 100000, 450000}, charges_mensuelles : {0, 80000},
     dettes_existantes : {30000}, anciennete_emploi : {0, 1, 100},
     incidents_paiement_12m : {0, 2, 3},
     montant_demande : {0, 600000, 12000000},
     duree_pret_mois : {0, 36, 96}, age : {25, 40, 66}]

ProfilsExtremes ==
    [type_client : {"particulier", "entreprise"},
     profession : {"etudiant", "salarie_confirme"},
     revenu_mensuel : {-50000, 700000}, charges_mensuelles : {0, 80000},
     dettes_existantes : {0}, anciennete_emploi : {40},
     incidents_paiement_12m : {0, 5},
     montant_demande : {5000000, 50000000, 80000000},
     duree_pret_mois : {36, 96}, age : {30, 66}]

Profils == ProfilsCroises \cup ProfilsExtremes

Simulations ==
    [montant : {1000000}, duree_mois : {0, 3}, taux_annuel : {0, 1500},
     revenu_mensuel : {0, 450000}, charges : {80000}]

-----------------------------------------------------------------------------
(* The engine called on one profile *)

Init ==
    /\ POIDS = POIDS_INITIAL
    /\ SEUILS_RISQUE = SEUILS_RISQUE_INITIAL
    /\ SEUILS_MONTANT_PROFIL = SEUILS_MONTANT_PROFIL_INITIAL
    /\ profil \in Profils
    /\ appel = Aucun
    /\ journal = <<>>
    /\ BaseInitiale

Next ==
    \/ CalculerScoreRisque /\ UNCHANGED <<journal, tables_django>>
    \/ \E s \in Simulations :
          /\ SimulerPret(s.montant, s.duree_mois, s.taux_annuel,
                         s.revenu_mensuel, s.charges)
          /\ UNCHANGED <<journal, tables_django>>

Spec == Init /\ [][Next]_vars

-----------------------------------------------------------------------------
(* Properties of calculer_score_risque, under Spec *)

\* C1: the score_global of a result is 0.35 * score_endettement
\* + 0.30 * score_historique + 0.20 * score_stabilite + 0.15 * score_coherence
\* rounded to 2 decimals, the four scores being those of the same result.
C1_ScoreGlobalSommePonderee ==
    (appel.fn = "calculer_score_risque" /\ Reussi(appel.sortie)) =>
        LET r == appel.sortie
        IN  r.score_global = Arrondi(35 * r.score_endettement + 30 * r.score_historique
                                     + 20 * r.score_stabilite + 15 * r.score_coherence,
                                     100)

\* A result whose four scores differ from one another and whose weighted sum
\* is not a whole number of hundredths, so that the rounding acts.
C1_Temoin ==
    /\ appel.fn = "calculer_score_risque"
    /\ Reussi(appel.sortie)
    /\ LET r == appel.sortie
       IN  /\ Cardinality({r.score_endettement, r.score_historique,
                           r.score_stabilite, r.score_coherence}) = 4
           /\ r.score_stabilite # r.score_coherence
           /\ appel.locaux.score_global % 100 # 0
           /\ r.score_global > 0

\* C2: the risk level is the band of the weighted sum: [80, 100] Tres faible,
\* [65, 80) Faible, [50, 65) Modere, [35, 50) Eleve, [20, 35) Tres eleve,
\* [0, 20) Critique; a sum on a boundary gets the higher band, and the sum is
\* always within [0, 100], so that CRITIQUE is never the default of a sum
\* that matched no band.
C2_NiveauParBande ==
    (appel.fn = "calculer_score_risque" /\ Reussi(appel.sortie)) =>
        LET g == appel.locaux.score_global
            n == appel.sortie.niveau_risque
        IN  /\ 0 <= g /\ g <= 1000000
            /\ (g >= 800000) <=> (n = "Tres faible")
            /\ (650000 <= g /\ g < 800000) <=> (n = "Faible")
            /\ (500000 <= g /\ g < 650000) <=> (n = "Modere")
            /\ (350000 <= g /\ g < 500000) <=> (n = "Eleve")
            /\ (200000 <= g /\ g < 350000) <=> (n = "Tres eleve")
            /\ (g < 200000) <=> (n = "Critique")

\* A result whose weighted sum is exactly 80, a boundary of two bands.
C2_Temoin ==
    /\ appel.fn = "calculer_score_risque"
    /\ Reussi(appel.sortie)
    /\ appel.locaux.score_global = 800000
    /\ appel.sortie.niveau_risque = "Tres faible"

\* C3: alerte_fraude is true exactly when score_fraude >= 50, or
\* score_coherence <= 20, or revenu_mensuel > 0 and montant_demande
\* > 100 * revenu_mensuel.
C3_AlerteFraudeSiEtSeulementSi ==
    (appel.fn = "calculer_score_risque" /\ Reussi(appel.sortie)) =>
        LET r == appel.sortie
            p == appel.entree
        IN  r.alerte_fraude <=>
                \/ r.score_fraude >= 5000
                \/ r.score_coherence <= 2000
                \/ (p.revenu_mensuel > 0 /\ p.montant_demande > 100 * p.revenu_mensuel)

\* A result flagged by its fraud score alone: coherence above 20 and the
\* amount within 100 times the income.
C3_Temoin ==
    /\ appel.fn = "calculer_score_risque"
    /\ Reussi(appel.sortie)
    /\ appel.sortie.alerte_fraude
    /\ appel.sortie.score_fraude >= 5000
    /\ appel.sortie.score_coherence > 2000
    /\ appel.entree.revenu_mensuel > 0
    /\ appel.entree.montant_demande <= 100 * appel.entree.revenu_mensuel

\* C4: the recommendation is the first match of: fraud flag -> REFUS IMMEDIAT
\* whatever the score; else score >= 65 -> ACCORD DE PRINCIPE; else
\* score >= 50 -> ETUDE APPROFONDIE; else score >= 35 -> RISQUE ELEVE; else
\* REFUS RECOMMANDE.  It is always one of these five.
C4_RecommandationParPriorite ==
    (appel.fn = "calculer_score_risque" /\ Reussi(appel.sortie)) =>
        LET g == appel.locaux.score_global
            f == appel.sortie.alerte_fraude
            r == appel.sortie.recommandation
        IN  /\ r \in {"REFUS IMMEDIAT", "ACCORD DE PRINCIPE", "ETUDE APPROFONDIE",
                      "RISQUE ELEVE", "REFUS RECOMMANDE"}
            /\ f <=> (r = "REFUS IMMEDIAT")
            /\ (~f /\ g >= 650000) <=> (r = "ACCORD DE PRINCIPE")
            /\ (~f /\ 500000 <= g /\ g < 650000) <=> (r = "ETUDE APPROFONDIE")
            /\ (~f /\ 350000 <= g /\ g < 500000) <=> (r = "RISQUE ELEVE")
            /\ (~f /\ g < 350000) <=> (r = "REFUS RECOMMANDE")

\* A flagged result whose score would otherwise earn the approval.
C4_Temoin ==
    /\ appel.fn = "calculer_score_risque"
    /\ Reussi(appel.sortie)
    /\ appel.sortie.alerte_fraude
    /\ appel.locaux.score_global >= 650000
    /\ appel.sortie.score_global >= 6500
    /\ appel.sortie.recommandation = "REFUS IMMEDIAT"

\* C5: the alert list is, in this order, the alerts of the coherence scorer,
\* the critical-ratio alert iff ratio > 0.50, the incidents alert iff
\* incidents >= 3, then the alerts of the fraud scorer, each with the fraud
\* prefix; nothing else, and no alert twice.
C5_AlertesConcatenees ==
    (appel.fn = "calculer_score_risque" /\ Reussi(appel.sortie)) =>
        LET p   == appel.entree
            r   == appel.sortie
            A   == r.alertes
            coh == calculer_score_coherence(p, SEUILS_MONTANT_PROFIL_INITIAL).alertes
            fra == calculer_score_fraude(p, r.score_coherence).alertes
            nc  == Len(coh)
            nr  == IF r.ratio_endettement > 5000 THEN 1 ELSE 0
            ni  == IF p.incidents_paiement_12m >= 3 THEN 1 ELSE 0
        IN  /\ Len(A) = nc + nr + ni + Len(fra)
            /\ \A i \in 1..nc : A[i] = [marque |-> "", texte |-> coh[i]]
            /\ nr = 1 => A[nc + 1] = [marque |-> "", texte |-> "RATIO_ENDETTEMENT_CRITIQUE"]
            /\ ni = 1 => A[nc + nr + 1] = [marque |-> "", texte |-> "HISTORIQUE_PREOCCUPANT"]
            /\ \A i \in 1..Len(fra) :
                  A[nc + nr + ni + i] = [marque |-> "FRAUDE", texte |-> fra[i]]
            /\ \A i, j \in 1..Len(A) : A[i] = A[j] => i = j

\* A result with alerts of all four groups, two or more of the first and of
\* the last.
C5_Temoin ==
    /\ appel.fn = "calculer_score_risque"
    /\ Reussi(appel.sortie)
    /\ LET A == appel.sortie.alertes
       IN  /\ Len(A) >= 6
           /\ A[1].marque = "" /\ A[2].marque = ""
           /\ A[1].texte \notin {"RATIO_ENDETTEMENT_CRITIQUE", "HISTORIQUE_PREOCCUPANT"}
           /\ A[2].texte \notin {"RATIO_ENDETTEMENT_CRITIQUE", "HISTORIQUE_PREOCCUPANT"}
           /\ \E i \in 3..Len(A) - 3 :
                 /\ A[i] = [marque |-> "", texte |-> "RATIO_ENDETTEMENT_CRITIQUE"]
                 /\ A[i + 1] = [marque |-> "", texte |-> "HISTORIQUE_PREOCCUPANT"]
                 /\ A[i + 2].marque = "FRAUDE"
                 /\ A[i + 3].marque = "FRAUDE"

\* The fields of a ResultatScoring and of the dict of simuler_pret, with the
\* leve field the model adds to both.
ChampsResultatScoring ==
    {"leve", "score_global", "niveau_risque", "score_endettement",
     "score_historique", "score_stabilite", "score_coherence", "score_fraude",
     "ratio_endettement", "alertes", "recommandation", "explication",
     "alerte_fraude", "details", "facteurs_importants"}

ChampsSimulation ==
    {"leve", "montant", "duree_mois", "taux_annuel", "taux_mensuel", "mensualite",
     "cout_total", "cout_credit", "capacite_remboursement", "ratio_endettement",
     "eligible", "amortissement"}

\* C8: a call of calculer_score_risque or of simuler_pret whose input is
\* degenerate (income zero or negative, tenor zero, annual rate zero, a
\* profession that is in no lookup table) raises nothing and returns a
\* result with all its fields.
C8_AucuneExceptionSurEntreeDegeneree ==
    /\ appel.fn = "calculer_score_risque" =>
          LET p == appel.entree
          IN  (\/ p.revenu_mensuel <= 0
               \/ p.duree_pret_mois = 0
               \/ p.profession \notin DOMAIN SEUILS_MONTANT_PROFIL_INITIAL
               \/ p.profession \notin DOMAIN seuils_revenus) =>
                  /\ Reussi(appel.sortie)
                  /\ DOMAIN appel.sortie = ChampsResultatScoring
    /\ appel.fn = "simuler_pret" =>
          LET e == appel.entree
          IN  (e.revenu_mensuel <= 0 \/ e.duree_mois = 0 \/ e.taux_annuel = 0) =>
                  /\ Reussi(appel.sortie)
                  /\ DOMAIN appel.sortie = ChampsSimulation

\* A call of calculer_score_risque with income zero, tenor zero and the
\* profession "artisan", which no table knows.
C8_Temoin ==
    /\ appel.fn = "calculer_score_risque"
    /\ appel.entree.revenu_mensuel = 0
    /\ appel.entree.duree_pret_mois = 0
    /\ appel.entree.montant_demande > 0
    /\ appel.entree.profession = "artisan"
    /\ Reussi(appel.sortie)

\* C9: with income <= 0, calculer_score_endettement returns (0, 1.0) whatever
\* the charges, the debts, the amount and the tenor, and the result of
\* calculer_score_risque has score_endettement = 0, ratio_endettement = 1.0
\* and the critical-ratio alert.
C9_RevenuNulOuNegatif ==
    (appel.fn = "calculer_score_risque" /\ appel.entree.revenu_mensuel <= 0) =>
        LET p == appel.entree
        IN  /\ calculer_score_endettement(p.revenu_mensuel, p.charges_mensuelles,
                   p.dettes_existantes, p.montant_demande, p.duree_pret_mois)
               = [leve |-> "", score |-> 0, ratio |-> 10000]
            /\ Reussi(appel.sortie)
            /\ appel.sortie.score_endettement = 0
            /\ appel.sortie.ratio_endettement = 10000
            /\ \E i \in DOMAIN appel.sortie.alertes :
                  appel.sortie.alertes[i]
                  = [marque |-> "", texte |-> "RATIO_ENDETTEMENT_CRITIQUE"]

\* A result for an income of zero with charges, an amount and a tenor that
\* would otherwise make an installment.
C9_Temoin ==
    /\ appel.fn = "calculer_score_risque"
    /\ appel.entree.revenu_mensuel = 0
    /\ appel.entree.charges_mensuelles > 0
    /\ appel.entree.montant_demande > 0
    /\ appel.entree.duree_pret_mois > 0
    /\ Reussi(appel.sortie)
    /\ appel.sortie.ratio_endettement = 10000

-----------------------------------------------------------------------------
(* The engine called several times by one caller *)

\* The most engine calls the caller makes in a behaviour.
MaxJournal == 3

\* The profile of the example of the command line, an entreprise whose
\* profession is etudiant, a student above the threshold of the profession,
\* and a profile with income zero, tenor zero and an unknown profession.
QuelquesProfils ==
    {[type_client |-> "particulier", profession |-> "salarie_confirme",
      revenu_mensuel |-> 450000, charges_mensuelles |-> 80000,
      dettes_existantes |-> 30000, anciennete_emploi |-> 40,
      incidents_paiement_12m |-> 0, montant_demande |-> 5000000,
      duree_pret_mois |-> 36, age |-> 30],
     [type_client |-> "entreprise", profession |-> "etudiant",
      revenu_mensuel |-> 700000, charges_mensuelles |-> 0,
      dettes_existantes |-> 0, anciennete_emploi |-> 40,
      incidents_paiement_12m |-> 5, montant_demande |-> 50000000,
      duree_pret_mois |-> 96, age |-> 66],
     [type_client |-> "particulier", profession |-> "etudiant",
      revenu_mensuel |-> 100000, charges_mensuelles |-> 0,
      dettes_existantes |-> 30000, anciennete_emploi |-> 1,
      incidents_paiement_12m |-> 2, montant_demande |-> 600000,
      duree_pret_mois |-> 36, age |-> 25],
     [type_client |-> "particulier", profession |-> "artisan",
      revenu_mensuel |-> 0, charges_mensuelles |-> 80000,
      dettes_existantes |-> 30000, anciennete_emploi |-> 0,
      incidents_paiement_12m |-> 3, montant_demande |-> 12000000,
      duree_pret_mois |-> 0, age |-> 40]}

QuelquesSimulations ==
    {s \in Simulations : (s.duree_mois = 0) <=> (s.revenu_mensuel = 0)}

\* The caller builds another profile for its next call.
NouveauProfil(p) ==
    /\ p # profil
    /\ profil' = p
    /\ UNCHANGED <<POIDS, SEUILS_RISQUE, SEUILS_MONTANT_PROFIL, appel, journal, tables_django>>

InitAppels ==
    /\ POIDS = POIDS_INITIAL
    /\ SEUILS_RISQUE = SEUILS_RISQUE_INITIAL
    /\ SEUILS_MONTANT_PROFIL = SEUILS_MONTANT_PROFIL_INITIAL
    /\ profil \in QuelquesProfils
    /\ appel = Aucun
    /\ journal = <<>>
    /\ BaseInitiale

NextAppels ==
    \/ /\ Len(journal) < MaxJournal
       /\ CalculerScoreRisque
       /\ journal' = Append(journal, appel')
       /\ UNCHANGED tables_django
    \/ \E s \in QuelquesSimulations :
          /\ Len(journal) < MaxJournal
          /\ SimulerPret(s.montant, s.duree_mois, s.taux_annuel,
                         s.revenu_mensuel, s.charges)
          /\ journal' = Append(journal, appel')
          /\ UNCHANGED tables_django
    \/ \E p \in QuelquesProfils : NouveauProfil(p)

SpecAppels == InitAppels /\ [][NextAppels]_vars

\* C6: in any sequence of calls of calculer_score_risque and simuler_pret,
\* two calls of the same function with equal inputs return equal results,
\* whatever was called between them and before them.
C6_AppelsDeterministes ==
    \A i, j \in DOMAIN journal :
        (journal[i].fn = journal[j].fn /\ journal[i].entree = journal[j].entree)
            => journal[i].sortie = journal[j].sortie

\* The same profile scored before and after the scoring of another one.
C6_Temoin ==
    /\ Len(journal) >= 3
    /\ journal[1].fn = "calculer_score_risque"
    /\ journal[2].fn = "calculer_score_risque"
    /\ journal[3].fn = "calculer_score_risque"
    /\ journal[1].entree # journal[2].entree
    /\ journal[1].entree = journal[3].entree
    /\ Reussi(journal[3].sortie)
    /\ journal[1].sortie = journal[3].sortie

\* C7: a call of calculer_score_risque or of simuler_pret leaves the profile
\* it was given and the tables POIDS, SEUILS_RISQUE and SEUILS_MONTANT_PROFIL
\* as they were; after any number of calls the tables hold their initial
\* contents.
C7_AppelsSansEffet ==
    /\ [](/\ POIDS = POIDS_INITIAL
          /\ SEUILS_RISQUE = SEUILS_RISQUE_INITIAL
          /\ SEUILS_MONTANT_PROFIL = SEUILS_MONTANT_PROFIL_INITIAL)
    /\ [][journal' # journal =>
             /\ profil' = profil
             /\ appel'.fn = "calculer_score_risque" => appel'.entree = profil'
             /\ UNCHANGED <<POIDS, SEUILS_RISQUE, SEUILS_MONTANT_PROFIL>>]_vars

\* Calls of both functions were made, the last one of calculer_score_risque
\* on a profile with tenor zero, and the tables and the profile are intact.
C7_Temoin ==
    /\ Len(journal) >= 2
    /\ \E i \in DOMAIN journal : journal[i].fn = "simuler_pret"
    /\ appel.fn = "calculer_score_risque"
    /\ appel.entree = profil
    /\ profil.duree_pret_mois = 0
    /\ POIDS = POIDS_INITIAL
    /\ SEUILS_RISQUE = SEUILS_RISQUE_INITIAL
    /\ SEUILS_MONTANT_PROFIL = SEUILS_MONTANT_PROFIL_INITIAL

-----------------------------------------------------------------------------
(* calculer_score_endettement along a rising debt ratio *)

\* The charges up to which the ratio is raised, one unit at a time.
MaxCharges == 1100

\* Incomes of 400 and 1000 put the ratios 0.20, 0.33, 0.45, 0.60 and 1.0 on
\* the grid when there is no loan; the loan of 3000 adds an annuity over 12
\* months, or all of itself when the tenor is 0.
ProfilsEndettement ==
    [type_client : {"particulier"}, profession : {"salarie_confirme"},
     revenu_mensuel : {400, 1000}, charges_mensuelles : {0},
     dettes_existantes : {0}, anciennete_emploi : {40},
     incidents_paiement_12m : {0}, montant_demande : {0, 3000},
     duree_pret_mois : {0, 12}, age : {30}]

\* calculer_score_endettement is called for the profile, whose charges are
\* one more than at the call before; journal keeps that call.
EndettementSuivant ==
    /\ profil.charges_mensuelles < MaxCharges
    /\ profil' = IF appel = Aucun THEN profil
                 ELSE [profil EXCEPT !.charges_mensuelles = @ + 1]
    /\ appel' = [fn     |-> "calculer_score_endettement",
                 entree |-> profil',
                 locaux |-> LocauxEndettement(profil'.revenu_mensuel,
                                profil'.charges_mensuelles, profil'.dettes_existantes,
                                profil'.montant_demande, profil'.duree_pret_mois),
                 sortie |-> calculer_score_endettement(profil'.revenu_mensuel,
                                profil'.charges_mensuelles, profil'.dettes_existantes,
                                profil'.montant_demande, profil'.duree_pret_mois)]
    /\ journal' = IF appel = Aucun THEN <<>> ELSE <<appel>>
    /\ UNCHANGED tables_django
    /\ UNCHANGED <<POIDS, SEUILS_RISQUE, SEUILS_MONTANT_PROFIL>>

InitEndettement ==
    /\ POIDS = POIDS_INITIAL
    /\ SEUILS_RISQUE = SEUILS_RISQUE_INITIAL
    /\ SEUILS_MONTANT_PROFIL = SEUILS_MONTANT_PROFIL_INITIAL
    /\ profil \in ProfilsEndettement
    /\ appel = Aucun
    /\ journal = <<>>
    /\ BaseInitiale

NextEndettement == EndettementSuivant

SpecEndettement == InitEndettement /\ [][NextEndettement]_vars

\* C10: for income > 0 the score of calculer_score_endettement does not rise
\* when the ratio rises; at the ratios 0.20, 0.33, 0.45 and 0.60 the formulas
\* of the two bands that meet there both give 100, 70, 40 and 15; the score
\* is 0 for every ratio >= 1.0 and is never negative.
C10_ScoreEndettementMonotoneContinu ==
    appel.fn = "calculer_score_endettement" =>
        LET r == appel.sortie
            n == appel.locaux.num
            d == appel.locaux.den
        IN  /\ Reussi(r)
            /\ r.score >= 0
            /\ n >= d => r.score = 0
            /\ \A i \in DOMAIN journal :
                  journal[i].locaux.num * d <= n * journal[i].locaux.den
                      => r.score <= journal[i].sortie.score
            /\ 100 * n = 20 * d =>
                  /\ r.score = 10000
                  /\ ScoreBande(1, n, d) = 10000 /\ ScoreBande(2, n, d) = 10000
            /\ 100 * n = 33 * d =>
                  /\ r.score = 7000
                  /\ ScoreBande(2, n, d) = 7000 /\ ScoreBande(3, n, d) = 7000
            /\ 100 * n = 45 * d =>
                  /\ r.score = 4000
                  /\ ScoreBande(3, n, d) = 4000 /\ ScoreBande(4, n, d) = 4000
            /\ 100 * n = 60 * d =>
                  /\ r.score = 1500
                  /\ ScoreBande(4, n, d) = 1500 /\ ScoreBande(5, n, d) = 1500

\* The call at the ratio 0.45, after a call at a lower ratio that scored
\* more.
C10_Temoin ==
    /\ appel.fn = "calculer_score_endettement"
    /\ 100 * appel.locaux.num = 45 * appel.locaux.den
    /\ appel.sortie.score = 4000
    /\ journal # <<>>
    /\ journal[1].locaux.num * appel.locaux.den < appel.locaux.num * journal[1].locaux.den
    /\ journal[1].sortie.score > 4000

-----------------------------------------------------------------------------
(* calculer_score_historique called for rising incident counts *)

MaxIncidents == 110

ProfilsHistorique ==
    [type_client : {"particulier"}, profession : {"salarie_confirme"},
     revenu_mensuel : {450000}, charges_mensuelles : {0},
     dettes_existantes : {0}, anciennete_emploi : {40},
     incidents_paiement_12m : {0}, montant_demande : {0},
     duree_pret_mois : {12}, age : {30}]

\* calculer_score_historique is called for the incidents of the profile,
\* one more than at the call before; journal keeps that call.
HistoriqueSuivant ==
    /\ profil.incidents_paiement_12m < MaxIncidents
    /\ profil' = IF appel = Aucun THEN profil
                 ELSE [profil EXCEPT !.incidents_paiement_12m = @ + 1]
    /\ appel' = [fn     |-> "calculer_score_historique",
                 entree |-> profil'.incidents_paiement_12m,
                 sortie |-> calculer_score_historique(profil'.incidents_paiement_12m)]
    /\ journal' = IF appel = Aucun THEN <<>> ELSE <<appel>>
    /\ UNCHANGED tables_django
    /\ UNCHANGED <<POIDS, SEUILS_RISQUE, SEUILS_MONTANT_PROFIL>>

InitHistorique ==
    /\ POIDS = POIDS_INITIAL
    /\ SEUILS_RISQUE = SEUILS_RISQUE_INITIAL
    /\ SEUILS_MONTANT_PROFIL = SEUILS_MONTANT_PROFIL_INITIAL
    /\ profil \in ProfilsHistorique
    /\ appel = Aucun
    /\ journal = <<>>
    /\ BaseInitiale

NextHistorique == HistoriqueSuivant

SpecHistorique == InitHistorique /\ [][NextHistorique]_vars

\* C11: calculer_score_historique returns 100, 75, 50, 25 for 0, 1, 2, 3
\* incidents and max(0, 10 - 2.5 * (n - 4)) for n >= 4; the score does not
\* rise when the count rises, is never negative and is 0 for every n >= 8.
C11_ScoreHistoriqueDecroissant ==
    appel.fn = "calculer_score_historique" =>
        LET n == appel.entree
            s == appel.sortie
        IN  /\ n = 0 => s = 10000
            /\ n = 1 => s = 7500
            /\ n = 2 => s = 5000
            /\ n = 3 => s = 2500
            /\ (n >= 4 /\ n < 8) => s = 1000 - 250 * (n - 4)
            /\ n >= 8 => s = 0
            /\ s >= 0
            /\ \A i \in DOMAIN journal :
                  journal[i].entree <= n => s <= journal[i].sortie

\* The call for 8 incidents, the first count that scores 0, after the call
\* for 7 incidents that scored 2.5.
C11_Temoin ==
    /\ appel.fn = "calculer_score_historique"
    /\ appel.entree = 8
    /\ appel.sortie = 0
    /\ journal # <<>>
    /\ journal[1].entree = 7
    /\ journal[1].sortie = 250

-----------------------------------------------------------------------------
(* calculer_score_stabilite called for rising tenures *)

\* in tenths of a year
MaxAnciennete == 120

\* The ages on both sides of 23, 30, 55 and 65.
ProfilsStabilite ==
    [type_client : {"particulier"}, profession : {"salarie_confirme"},
     revenu_mensuel : {450000}, charges_mensuelles : {0},
     dettes_existantes : {0}, anciennete_emploi : {0},
     incidents_paiement_12m : {0}, montant_demande : {0},
     duree_pret_mois : {12}, age : {18, 22, 23, 29, 30, 40, 55, 56, 65, 66}]

\* calculer_score_stabilite is called for the profile, whose tenure is a
\* tenth of a year more than at the call before; journal keeps that call.
StabiliteSuivante ==
    /\ profil.anciennete_emploi < MaxAnciennete
    /\ profil' = IF appel = Aucun THEN profil
                 ELSE [profil EXCEPT !.anciennete_emploi = @ + 1]
    /\ appel' = [fn     |-> "calculer_score_stabilite",
                 entree |-> [anciennete |-> profil'.anciennete_emploi,
                             age |-> profil'.age],
                 sortie |-> calculer_score_stabilite(profil'.anciennete_emploi,
                                                     profil'.age)]
    /\ journal' = IF appel = Aucun THEN <<>> ELSE <<appel>>
    /\ UNCHANGED tables_django
    /\ UNCHANGED <<POIDS, SEUILS_RISQUE, SEUILS_MONTANT_PROFIL>>

InitStabilite ==
    /\ POIDS = POIDS_INITIAL
    /\ SEUILS_RISQUE = SEUILS_RISQUE_INITIAL
    /\ SEUILS_MONTANT_PROFIL = SEUILS_MONTANT_PROFIL_INITIAL
    /\ profil \in ProfilsStabilite
    /\ appel = Aucun
    /\ journal = <<>>
    /\ BaseInitiale

NextStabilite == StabiliteSuivante

SpecStabilite == InitStabilite /\ [][NextStabilite]_vars

\* C12: calculer_score_stabilite is the curve through 20 at 0 years, 45 at 1,
\* 65 at 2, 85 at 5 and 100 from 10 years on, linear between these points
\* and so continuous at each of them, then adjusted for the age: +5 capped
\* at 100 for an age in [30, 55], -10 floored at 0 for an age < 23 or > 65,
\* nothing for the ages 23-29 and 56-65; the result is within [0, 100] and,
\* for a fixed age, does not fall when the tenure rises.
C12_ScoreStabiliteCourbeEtAge ==
    appel.fn = "calculer_score_stabilite" =>
        LET a   == appel.entree.anciennete
            age == appel.entree.age
            s   == appel.sortie
            \* the line from (x0, y0) to (x1, y1) at a, in 1/300 of a point
            Ligne(x0, y0, x1, y1) ==
                30000 * y0 + (30000 * (a - x0) * (y1 - y0)) \div (x1 - x0)
            courbe == IF a >= 100 THEN 30000 * 100
                      ELSE IF a >= 50 THEN Ligne(50, 85, 100, 100)
                      ELSE IF a >= 20 THEN Ligne(20, 65, 50, 85)
                      ELSE IF a >= 10 THEN Ligne(10, 45, 20, 65)
                      ELSE Ligne(0, 20, 10, 45)
            ajuste == IF 30 <= age /\ age <= 55 THEN Min(3000000, courbe + 150000)
                      ELSE IF age < 23 \/ age > 65 THEN Max(0, courbe - 300000)
                      ELSE courbe
        IN  /\ s = Arrondi(ajuste, 300)
            /\ (a = 0 /\ 23 <= age /\ age < 30) => s = 2000
            /\ (a = 10 /\ 23 <= age /\ age < 30) => s = 4500
            /\ (a = 20 /\ 56 <= age /\ age <= 65) => s = 6500
            /\ (a = 50 /\ 56 <= age /\ age <= 65) => s = 8500
            /\ (a >= 100 /\ age >= 23 /\ age <= 65) => s = 10000
            /\ 0 <= s /\ s <= 10000
            /\ \A i \in DOMAIN journal :
                  (journal[i].entree.age = age /\ journal[i].entree.anciennete <= a)
                      => /\ journal[i].sortie <= s
                         /\ s - journal[i].sortie <= 250

\* The call at 5 years for an age of 40, where two pieces of the curve meet
\* and the age adds 5, after the call at 4.9 years that scored 89.33.
C12_Temoin ==
    /\ appel.fn = "calculer_score_stabilite"
    /\ appel.entree.anciennete = 50
    /\ appel.entree.age = 40
    /\ appel.sortie = 9000
    /\ journal # <<>>
    /\ journal[1].entree.anciennete = 49
    /\ journal[1].sortie = 8933

-----------------------------------------------------------------------------
(* calculer_score_coherence called on one profile *)

\* Amounts on both sides of 1 and 2 times the thresholds 500 000 (etudiant),
\* 10 000 000 (artisan, not in the table) and 200 000 000 (entreprise), and
\* of 48 and 60 times the income; tenors around 84 months; ages that reach
\* 70 years at the end of the loan or not.
ProfilsCoherence ==
    [type_client : {"particulier", "entreprise"},
     profession : {"etudiant", "salarie_confirme", "artisan"},
     revenu_mensuel : {0, 100000}, charges_mensuelles : {0},
     dettes_existantes : {0}, anciennete_emploi : {40},
     incidents_paiement_12m : {0},
     montant_demande : {0, 600000, 1200000, 5000000, 12000000, 450000000},
     duree_pret_mois : {0, 36, 84, 85, 96}, age : {30, 63, 66, 67, 70}]

CalculerScoreCoherence ==
    /\ appel' = [fn     |-> "calculer_score_coherence",
                 entree |-> profil,
                 sortie |-> calculer_score_coherence(profil, SEUILS_MONTANT_PROFIL)]
    /\ UNCHANGED <<POIDS, SEUILS_RISQUE, SEUILS_MONTANT_PROFIL, profil, journal, tables_django>>

InitCoherence ==
    /\ POIDS = POIDS_INITIAL
    /\ SEUILS_RISQUE = SEUILS_RISQUE_INITIAL
    /\ SEUILS_MONTANT_PROFIL = SEUILS_MONTANT_PROFIL_INITIAL
    /\ profil \in ProfilsCoherence
    /\ appel = Aucun
    /\ journal = <<>>
    /\ BaseInitiale

NextCoherence == CalculerScoreCoherence

SpecCoherence == InitCoherence /\ [][NextCoherence]_vars

\* C13: calculer_score_coherence returns max(0, 100 - the sum of the
\* deductions) of four groups, each evaluated whatever the others gave:
\* amount / threshold > 2.0 -> 60 else > 1.0 -> 30; amount / income > 60
\* -> 30 else > 48 -> 15 (the income counting for 1 when it is below 1);
\* tenor > 84 -> 10; age + tenor / 12 > 70 -> 15.  The alerts are one for
\* each group that deducted, in that order, and the threshold of a client of
\* type 'entreprise' is the 'entreprise' one whatever the profession.
C13_ScoreCoherenceDeductions ==
    appel.fn = "calculer_score_coherence" =>
        LET p == appel.entree
            r == appel.sortie
            seuil == IF p.type_client = "entreprise" THEN 200000000
                     ELSE IF p.profession = "etudiant" THEN 500000
                     ELSE IF p.profession = "salarie_confirme" THEN 20000000
                     ELSE 10000000
            revenu == IF p.revenu_mensuel >= 1 THEN p.revenu_mensuel ELSE 1
            g1 == IF p.montant_demande > 2 * seuil THEN 60
                  ELSE IF p.montant_demande > seuil THEN 30 ELSE 0
            g2 == IF p.montant_demande > 60 * revenu THEN 30
                  ELSE IF p.montant_demande > 48 * revenu THEN 15 ELSE 0
            g3 == IF p.duree_pret_mois > 84 THEN 10 ELSE 0
            g4 == IF 12 * p.age + p.duree_pret_mois > 12 * 70 THEN 15 ELSE 0
            a1 == IF g1 = 60 THEN <<"ALERTE_SEUIL_PROFIL">>
                  ELSE IF g1 = 30 THEN <<"ATTENTION_SEUIL_PROFIL">> ELSE <<>>
            a2 == IF g2 = 30 THEN <<"ALERTE_RATIO_REVENU">>
                  ELSE IF g2 = 15 THEN <<"ATTENTION_RATIO_REVENU">> ELSE <<>>
            a3 == IF g3 = 10 THEN <<"DUREE_TRES_LONGUE">> ELSE <<>>
            a4 == IF g4 = 15 THEN <<"AGE_FIN_PRET">> ELSE <<>>
        IN  /\ Reussi(r)
            /\ r.score = 100 * Max(0, 100 - (g1 + g2 + g3 + g4))
            /\ r.alertes = a1 \o a2 \o a3 \o a4

\* An 'entreprise' that declares the profession 'etudiant' and asks for more
\* than twice the threshold of a student: the first group deducts nothing,
\* the three others all deduct.
C13_Temoin ==
    /\ appel.fn = "calculer_score_coherence"
    /\ appel.entree.type_client = "entreprise"
    /\ appel.entree.profession = "etudiant"
    /\ appel.entree.montant_demande = 5000000
    /\ appel.sortie.score = 6000
    /\ appel.sortie.alertes = <<"ATTENTION_RATIO_REVENU", "DUREE_TRES_LONGUE", "AGE_FIN_PRET">>

-----------------------------------------------------------------------------
(* Properties of the scores of a result, under Spec *)

\* C14: the fraud score of a result is min(100, the sum of the increments of
\* the rules that fire): score_coherence <= 20 -> 40 else <= 50 -> 20;
\* income > 0 and amount / income > 100 -> 30 else > 60 -> 15; income > 3
\* times the sanity threshold of the profession -> 15, for the professions
\* that have one; income > 300 000 and charges = 0 -> 10; incidents >= 3 and
\* amount > 10 000 000 -> 15.  The five rules together give 110, capped to
\* exactly 100.
C14_ScoreFraudeSommePlafonnee ==
    (appel.fn = "calculer_score_risque" /\ Reussi(appel.sortie)) =>
        LET p  == appel.entree
            r  == appel.sortie
            r1 == IF r.score_coherence <= 2000 THEN 40
                  ELSE IF r.score_coherence <= 5000 THEN 20 ELSE 0
            r2 == IF p.revenu_mensuel > 0 /\ p.montant_demande > 100 * p.revenu_mensuel
                  THEN 30
                  ELSE IF p.revenu_mensuel > 0 /\ p.montant_demande > 60 * p.revenu_mensuel
                  THEN 15 ELSE 0
            r3 == IF \/ p.profession = "etudiant" /\ p.revenu_mensuel > 3 * 200000
                     \/ p.profession = "salarie_junior" /\ p.revenu_mensuel > 3 * 500000
                     \/ p.profession = "salarie_confirme" /\ p.revenu_mensuel > 3 * 2000000
                     \/ p.profession = "retraite" /\ p.revenu_mensuel > 3 * 1000000
                  THEN 15 ELSE 0
            r4 == IF p.revenu_mensuel > 300000 /\ p.charges_mensuelles = 0 THEN 10 ELSE 0
            r5 == IF p.incidents_paiement_12m >= 3 /\ p.montant_demande > 10000000
                  THEN 15 ELSE 0
        IN  /\ r.score_fraude = 100 * Min(100, r1 + r2 + r3 + r4 + r5)
            /\ (r1 = 40 /\ r2 = 30 /\ r3 = 15 /\ r4 = 10 /\ r5 = 15)
                   => r.score_fraude = 10000

\* A result of calculer_score_risque for which the five rules all fire: a
\* student with an income of 700 000, no charges and 5 incidents who asks for
\* 80 000 000.
C14_Temoin ==
    /\ appel.fn = "calculer_score_risque"
    /\ Reussi(appel.sortie)
    /\ appel.sortie.score_coherence <= 2000
    /\ appel.entree.revenu_mensuel > 0
    /\ appel.entree.montant_demande > 100 * appel.entree.revenu_mensuel
    /\ appel.entree.profession = "etudiant"
    /\ appel.entree.revenu_mensuel > 600000
    /\ appel.entree.charges_mensuelles = 0
    /\ appel.entree.incidents_paiement_12m >= 3
    /\ appel.entree.montant_demande > 10000000
    /\ appel.sortie.score_fraude = 10000

\* C15: in every result of calculer_score_risque for a profile whose fields
\* are all non-negative, score_global, score_endettement, score_historique,
\* score_stabilite, score_coherence and score_fraude are each within
\* [0, 100].
C15_ScoresEntreZeroEtCent ==
    (/\ appel.fn = "calculer_score_risque"
     /\ Reussi(appel.sortie)
     /\ appel.entree.revenu_mensuel >= 0
     /\ appel.entree.charges_mensuelles >= 0
     /\ appel.entree.dettes_existantes >= 0
     /\ appel.entree.anciennete_emploi >= 0
     /\ appel.entree.incidents_paiement_12m >= 0
     /\ appel.entree.montant_demande >= 0
     /\ appel.entree.duree_pret_mois >= 0
     /\ appel.entree.age >= 0) =>
        \A s \in {appel.sortie.score_global, appel.sortie.score_endettement,
                  appel.sortie.score_historique, appel.sortie.score_stabilite,
                  appel.sortie.score_coherence, appel.sortie.score_fraude} :
            0 <= s /\ s <= 10000

\* A result for a profile of non-negative fields whose debt ratio is above
\* 1.0, where the last band of the debt score is floored at 0, and whose
\* history score is at the other end, 100.
C15_Temoin ==
    /\ appel.fn = "calculer_score_risque"
    /\ Reussi(appel.sortie)
    /\ appel.entree.revenu_mensuel > 0
    /\ appel.entree.charges_mensuelles >= 0
    /\ appel.entree.montant_demande >= 0
    /\ appel.sortie.ratio_endettement > 10000
    /\ appel.sortie.score_endettement = 0
    /\ appel.sortie.score_historique = 10000

-----------------------------------------------------------------------------
(* A caller that scores a profile and simulates its loan *)

\* in months
MaxDuree == 10

MaxAppelsSimulation == 2

\* Loans of every tenor up to MaxDuree.  Without interest the loan of
\* 990 000 over 3 months costs 330 000 a month: 0.33 of an income of
\* 1 000 000.
ProfilsSimulation ==
    [type_client : {"particulier"}, profession : {"salarie_confirme"},
     revenu_mensuel : {450000}, charges_mensuelles : {80000},
     dettes_existantes : {0}, anciennete_emploi : {40},
     incidents_paiement_12m : {0}, montant_demande : {0, 990000, 20000000},
     duree_pret_mois : 0..MaxDuree, age : {30}]

\* The simulations of the loan of profile p: at no interest and at the
\* default rate, for incomes negative, zero and positive.
SimulationsDuProfil(p) ==
    [montant : {p.montant_demande}, duree_mois : {p.duree_pret_mois},
     taux_annuel : {0, 1500}, revenu_mensuel : {-50000, 0, 450000, 1000000},
     charges : {80000}]

InitSimulation ==
    /\ POIDS = POIDS_INITIAL
    /\ SEUILS_RISQUE = SEUILS_RISQUE_INITIAL
    /\ SEUILS_MONTANT_PROFIL = SEUILS_MONTANT_PROFIL_INITIAL
    /\ profil \in ProfilsSimulation
    /\ appel = Aucun
    /\ journal = <<>>
    /\ BaseInitiale

NextSimulation ==
    \/ /\ Len(journal) < MaxAppelsSimulation
       /\ CalculerScoreRisque
       /\ journal' = Append(journal, appel')
       /\ UNCHANGED tables_django
    \/ \E s \in SimulationsDuProfil(profil) :
          /\ Len(journal) < MaxAppelsSimulation
          /\ SimulerPret(s.montant, s.duree_mois, s.taux_annuel,
                         s.revenu_mensuel, s.charges)
          /\ journal' = Append(journal, appel')
          /\ UNCHANGED tables_django

SpecSimulation == InitSimulation /\ [][NextSimulation]_vars

\* C16: the eligibility of simuler_pret has three states: it is None
\* (unknown), never False, whenever revenu_mensuel <= 0; when revenu_mensuel
\* > 0 it is True exactly when installment / income < 0.33, and False
\* otherwise.
C16_EligibiliteTroisEtats ==
    (appel.fn = "simuler_pret" /\ Reussi(appel.sortie)) =>
        LET e == appel.entree
            r == appel.sortie
        IN  /\ e.revenu_mensuel <= 0 => r.eligible = "None"
            /\ e.revenu_mensuel > 0 =>
                  /\ r.eligible \in {"True", "False"}
                  /\ (r.eligible = "True") <=>
                         (100 * r.mensualite < 33 * e.revenu_mensuel)

\* A simulation without income for a loan that has an installment: unknown.
C16_Temoin ==
    /\ appel.fn = "simuler_pret"
    /\ Reussi(appel.sortie)
    /\ appel.entree.revenu_mensuel = 0
    /\ appel.sortie.mensualite > 0
    /\ appel.sortie.eligible = "None"

\* C17: for every tenor n >= 1 the schedule of simuler_pret lists exactly the
\* months m of 1..n with m <= 3 or m >= n - 1, in strictly increasing order
\* and none twice: min(n, 5) rows; the remaining balance of every row is
\* >= 0.
C17_TableauPremiersEtDerniersMois ==
    (/\ appel.fn = "simuler_pret"
     /\ Reussi(appel.sortie)
     /\ appel.entree.duree_mois >= 1) =>
        LET n == appel.entree.duree_mois
            A == appel.sortie.amortissement
        IN  /\ {A[i].mois : i \in DOMAIN A} = {m \in 1..n : m <= 3 \/ m >= n - 1}
            /\ \A i \in DOMAIN A : \A j \in DOMAIN A : i < j => A[i].mois < A[j].mois
            /\ Len(A) = Min(n, 5)
            /\ \A i \in DOMAIN A : A[i].capital_restant >= 0

\* The schedule of a loan over 10 months at the default rate: the months 1,
\* 2, 3, 9 and 10, the balance falling from row to row.
C17_Temoin ==
    /\ appel.fn = "simuler_pret"
    /\ Reussi(appel.sortie)
    /\ appel.entree.duree_mois = 10
    /\ appel.entree.taux_annuel = 1500
    /\ appel.entree.montant = 20000000
    /\ [i \in DOMAIN appel.sortie.amortissement |-> appel.sortie.amortissement[i].mois]
           = <<1, 2, 3, 9, 10>>
    /\ \A i \in 1..4 : appel.sortie.amortissement[i + 1].capital_restant
                            < appel.sortie.amortissement[i].capital_restant

\* C18: for every amount >= 0 and tenor >= 1, the installment returned by
\* simuler_pret for the amount and the tenor at the default annual rate 0.15
\* is within 1 unit of details['mensualite_estimee'] returned by
\* calculer_score_risque for a profile with the same amount and tenor.
C18_MensualiteSimuleeEtEstimee ==
    \A i \in DOMAIN journal : \A j \in DOMAIN journal :
        (/\ journal[i].fn = "simuler_pret"
         /\ journal[j].fn = "calculer_score_risque"
         /\ journal[i].entree.taux_annuel = 1500
         /\ journal[i].entree.montant >= 0
         /\ journal[i].entree.duree_mois >= 1
         /\ journal[i].entree.montant = journal[j].entree.montant_demande
         /\ journal[i].entree.duree_mois = journal[j].entree.duree_pret_mois) =>
            /\ Reussi(journal[i].sortie)
            /\ Reussi(journal[j].sortie)
            /\ Abs(journal[i].sortie.mensualite
                   - journal[j].sortie.details.mensualite_estimee) <= 1

\* A caller that simulated a loan of 20 000 000 over 10 months at the
\* default rate and then scored a profile asking for the same loan.
C18_Temoin ==
    /\ Len(journal) = 2
    /\ journal[1].fn = "simuler_pret"
    /\ journal[2].fn = "calculer_score_risque"
    /\ journal[1].entree.taux_annuel = 1500
    /\ journal[1].entree.montant = 20000000
    /\ journal[1].entree.duree_mois = 10
    /\ journal[2].entree.montant_demande = 20000000
    /\ journal[2].entree.duree_pret_mois = 10
    /\ journal[1].sortie.mensualite > 2000000
    /\ journal[2].sortie.details.mensualite_estimee > 2000000

-----------------------------------------------------------------------------
(* Properties of the explanation of a result, under Spec *)

\* C19: every factor that generer_explication classifies 'negatif' or 'tres
\* negatif', for any of the four components, contributes its own sentence to
\* the bullets of the explanation, and no factor classified 'positif' or
\* 'tres positif' contributes one.
C19_PhraseParFacteurNegatif ==
    (appel.fn = "calculer_score_risque" /\ Reussi(appel.sortie)) =>
        LET F == appel.sortie.facteurs_importants
            B == appel.sortie.explication.puces
            \* the sentences that speak of a component
            Phrases(nom) ==
                CASE nom = "Ratio d'endettement" ->
                         {"ENDETTEMENT_TRES_ELEVE", "ENDETTEMENT_DEPASSE_SEUIL"}
                  [] nom = "Historique de paiement" -> {"HISTORIQUE_PREOCCUPANT"}
                  [] nom = "Stabilite professionnelle" -> {"STABILITE_FAIBLE"}
                  [] nom = "Coherence montant/profil" -> {"MONTANT_INCOHERENT"}
                  [] OTHER -> {}
            APhrase(nom) == \E i \in DOMAIN B : B[i] \in Phrases(nom)
        IN  \A i \in DOMAIN F :
                (F[i].impact \in {"negatif", "tres negatif"}) <=> APhrase(F[i].facteur)

-----------------------------------------------------------------------------
(* calculer_score_risque called for profiles around the boundary of 80 *)

MaxChargesFrontiere == 438700

\* With an income of 1 000 000, no loan, no incident, 10 years of tenure and
\* an age of 40, three scores are 100 and the debt ratio is the charges over
\* the income: around 0.4386 the weighted sum is around 80.
ProfilsFrontiere ==
    [type_client : {"particulier"}, profession : {"salarie_confirme"},
     revenu_mensuel : {1000000}, charges_mensuelles : {438500},
     dettes_existantes : {0}, anciennete_emploi : {100},
     incidents_paiement_12m : {0}, montant_demande : {0},
     duree_pret_mois : {12}, age : {40}]

\* The caller scores the profile, whose charges are one more than at the
\* call before.
FrontiereSuivante ==
    /\ profil.charges_mensuelles < MaxChargesFrontiere
    /\ profil' = IF appel = Aucun THEN profil
                 ELSE [profil EXCEPT !.charges_mensuelles = @ + 1]
    /\ appel' = AppelScoreRisque(profil', profil',
                     LocauxScoreRisque(profil', POIDS, SEUILS_RISQUE,
                                       SEUILS_MONTANT_PROFIL))
    /\ UNCHANGED <<POIDS, SEUILS_RISQUE, SEUILS_MONTANT_PROFIL, journal, tables_django>>

InitFrontiere ==
    /\ POIDS = POIDS_INITIAL
    /\ SEUILS_RISQUE = SEUILS_RISQUE_INITIAL
    /\ SEUILS_MONTANT_PROFIL = SEUILS_MONTANT_PROFIL_INITIAL
    /\ profil \in ProfilsFrontiere
    /\ appel = Aucun
    /\ journal = <<>>
    /\ BaseInitiale

NextFrontiere == FrontiereSuivante

SpecFrontiere == InitFrontiere /\ [][NextFrontiere]_vars

\* C20: in every result of calculer_score_risque the niveau_risque is the
\* band that contains the reported score_global, the one rounded to two
\* decimals: no result reports 80.0 with Faible, 65.0 with Modere, 50.0 with
\* Eleve, 35.0 with Tres eleve or 20.0 with Critique.
C20_NiveauDuScoreArrondi ==
    (appel.fn = "calculer_score_risque" /\ Reussi(appel.sortie)) =>
        LET g == appel.sortie.score_global
            n == appel.sortie.niveau_risque
        IN  /\ (g >= 8000) <=> (n = "Tres faible")
            /\ (6500 <= g /\ g < 8000) <=> (n = "Faible")
            /\ (5000 <= g /\ g < 6500) <=> (n = "Modere")
            /\ (3500 <= g /\ g < 5000) <=> (n = "Eleve")
            /\ (2000 <= g /\ g < 3500) <=> (n = "Tres eleve")
            /\ (g < 2000) <=> (n = "Critique")


-----------------------------------------------------------------------------
(* Properties of the decision of a result, under Spec *)

\* C21: in every result of calculer_score_risque whose fraud flag is not
\* raised, the tier and the recommendation agree: the tier is Tres faible or
\* Faible exactly when the recommendation is the agreement in principle,
\* Modere exactly when it is the deeper study, Eleve exactly when it is the
\* high risk under strict conditions, and Tres eleve or Critique exactly when
\* it is the recommended refusal.
C21_NiveauEtRecommandation ==
    (/\ appel.fn = "calculer_score_risque"
     /\ Reussi(appel.sortie)
     /\ ~appel.sortie.alerte_fraude) =>
        LET n == appel.sortie.niveau_risque
            r == appel.sortie.recommandation
        IN  /\ (n \in {"Tres faible", "Faible"}) <=> (r = "ACCORD DE PRINCIPE")
            /\ (n = "Modere") <=> (r = "ETUDE APPROFONDIE")
            /\ (n = "Eleve") <=> (r = "RISQUE ELEVE")
            /\ (n \in {"Tres eleve", "Critique"}) <=> (r = "REFUS RECOMMANDE")

\* A result without fraud flag in the tier Faible, for which the agreement
\* in principle is recommended.
C21_Temoin ==
    /\ appel.fn = "calculer_score_risque"
    /\ Reussi(appel.sortie)
    /\ ~appel.sortie.alerte_fraude
    /\ appel.sortie.niveau_risque = "Faible"
    /\ appel.sortie.recommandation = "ACCORD DE PRINCIPE"


\* C22: in every result of calculer_score_risque whose fraud flag is raised,
\* and in every result that recommends the immediate refusal, the alert list
\* holds at least one alert with the fraud prefix: the silent increments of
\* the rules alone never raise the flag.
C22_AlerteFraudeAnnoncee ==
    (/\ appel.fn = "calculer_score_risque"
     /\ Reussi(appel.sortie)
     /\ \/ appel.sortie.alerte_fraude
        \/ appel.sortie.recommandation = "REFUS IMMEDIAT") =>
        \E i \in DOMAIN appel.sortie.alertes :
            appel.sortie.alertes[i].marque = "FRAUDE"

\* A result whose fraud flag is raised and whose fraud score counts the
\* silent 20 points of a coherence score between 20 and 50, with a fraud
\* alert in its list.
C22_Temoin ==
    /\ appel.fn = "calculer_score_risque"
    /\ Reussi(appel.sortie)
    /\ appel.sortie.alerte_fraude
    /\ appel.sortie.recommandation = "REFUS IMMEDIAT"
    /\ appel.sortie.score_coherence > 2000
    /\ appel.sortie.score_coherence <= 5000
    /\ \E i \in DOMAIN appel.sortie.alertes :
           appel.sortie.alertes[i].marque = "FRAUDE"


\* C23: in every result of calculer_score_risque whose global score is below
\* 50, and so whose explanation opens with an intro that announces reasons
\* and ends with a colon, at least one sentence follows the intro.
C23_RaisonsAnnonceesDonnees ==
    (/\ appel.fn = "calculer_score_risque"
     /\ Reussi(appel.sortie)
     /\ \/ appel.locaux.score_global < 500000
        \/ appel.sortie.explication.intro
               \in {"faible, en raison de :", "critique, facteurs majeurs :"}) =>
        /\ appel.locaux.score_global < 500000
        /\ appel.sortie.explication.intro
               \in {"faible, en raison de :", "critique, facteurs majeurs :"}
        /\ Len(appel.sortie.explication.puces) >= 1

\* A result whose score is between 35 and 50 and whose intro is followed by
\* exactly one sentence.
C23_Temoin ==
    /\ appel.fn = "calculer_score_risque"
    /\ Reussi(appel.sortie)
    /\ appel.locaux.score_global < 500000
    /\ appel.sortie.explication.intro = "faible, en raison de :"
    /\ Len(appel.sortie.explication.puces) = 1


-----------------------------------------------------------------------------
(* Properties of the details of a result, under Spec *)

\* C24: in every result of calculer_score_risque for a profile with an
\* income above 0 and a tenor of 0 or more, tenor 0 included, the
\* mensualite_estimee of the details is the installment behind the reported
\* debt ratio: ratio_endettement is (charges + debts + mensualite_estimee)
\* / income, rounded to 4 decimals.
C24_MensualiteDesDetailsEtDuRatio ==
    (/\ appel.fn = "calculer_score_risque"
     /\ Reussi(appel.sortie)
     /\ appel.entree.revenu_mensuel > 0
     /\ appel.entree.duree_pret_mois >= 0) =>
        appel.sortie.ratio_endettement =
            ArrondiMulDiv(appel.entree.charges_mensuelles
                          + appel.entree.dettes_existantes
                          + appel.sortie.details.mensualite_estimee,
                          10000, appel.entree.revenu_mensuel)


-----------------------------------------------------------------------------
(* The caller writes into the weights of the details *)

MaxAppelsPoids == 2

\* The weights a caller puts into the mapping it was given.
PoidsEcrits == {0, 50}

ClesEcrites == {"ratio_endettement", "historique_paiement"}

\* details["poids_appliques"][cle] = valeur, by the caller of
\* calculer_score_risque that holds its result: the mapping of the details is
\* the dict POIDS, so the assignment is made in POIDS.
ModifierPoidsAppliques(cle, valeur) ==
    /\ appel.fn = "calculer_score_risque"
    /\ Reussi(appel.sortie)
    /\ appel.sortie.details.poids_appliques = REF_POIDS
    /\ POIDS[cle] # valeur
    /\ POIDS' = [POIDS EXCEPT ![cle] = valeur]
    /\ UNCHANGED <<SEUILS_RISQUE, SEUILS_MONTANT_PROFIL, profil, appel, journal, tables_django>>

InitPoids ==
    /\ POIDS = POIDS_INITIAL
    /\ SEUILS_RISQUE = SEUILS_RISQUE_INITIAL
    /\ SEUILS_MONTANT_PROFIL = SEUILS_MONTANT_PROFIL_INITIAL
    /\ profil \in QuelquesProfils
    /\ appel = Aucun
    /\ journal = <<>>
    /\ BaseInitiale

NextPoids ==
    \/ /\ Len(journal) < MaxAppelsPoids
       /\ CalculerScoreRisque
       /\ journal' = Append(journal, appel')
       /\ UNCHANGED tables_django
    \/ \E cle \in ClesEcrites : \E valeur \in PoidsEcrits :
          ModifierPoidsAppliques(cle, valeur)

SpecPoids == InitPoids /\ [][NextPoids]_vars

\* C25: the mapping of weights in the details of a result shares nothing
\* with the table of the engine: whatever a caller writes into it, POIDS
\* keeps its initial contents and every later call of calculer_score_risque
\* on the same profile returns the same score_global as before.
C25_PoidsAppliquesSansPartage ==
    /\ POIDS = POIDS_INITIAL
    /\ \A i, j \in DOMAIN journal :
           (/\ journal[i].fn = "calculer_score_risque"
            /\ journal[j].fn = "calculer_score_risque"
            /\ journal[i].entree = journal[j].entree
            /\ Reussi(journal[i].sortie)
            /\ Reussi(journal[j].sortie)) =>
               journal[i].sortie.score_global = journal[j].sortie.score_global


-----------------------------------------------------------------------------
(* RiskGuard 360 - workflow of a dossier (src/dossiers)                    *)
(*                                                                         *)
(* One DossierPret and its client.  profil holds the fields of the client  *)
(* and of the dossier from which calculer_score_dossier builds its         *)
(* ProfilClient.  A request is one action: the view or the API method from *)
(* its first line to its response.  appel keeps the last request: its      *)
(* handler, the user and the form data, the etat of the dossier when the   *)
(* request arrived, what changer_etat_dossier returned if it was called,   *)
(* and the response.  A text of the application (motif, message) is a tag. *)

ETAT_CHOICES == {"soumis", "en_analyse", "valide", "refuse", "alerte_fraude"}

\* The users: c1 is the conseiller of the dossier, c2 another conseiller,
\* g1 a gestionnaire, m1 a manager_risque, a1 a superuser.
Utilisateurs == {"c1", "c2", "g1", "m1", "a1"}

get_user_role(user) ==
    CASE user = "a1" -> "admin"
      [] user = "m1" -> "manager_risque"
      [] user = "g1" -> "gestionnaire"
      [] OTHER       -> "conseiller"

user_can_change_etat(user) == get_user_role(user) \in {"manager_risque", "admin"}

\* transitions_possibles with the dossiers that were decided open again.
transitions_possibles_DecisionsRouvertes(d) ==
    CASE d.etat = "soumis"        -> {"en_analyse", "alerte_fraude"}
      [] d.etat = "en_analyse"    -> {"valide", "refuse", "alerte_fraude"}
      [] d.etat = "valide"        -> {"en_analyse"}
      [] d.etat = "refuse"        -> {"en_analyse"}
      [] d.etat = "alerte_fraude" -> {"en_analyse", "refuse"}
      [] OTHER                    -> {}

\* DossierPret.transitions_possibles
transitions_possibles(d) ==
    CASE d.etat = "soumis"        -> {"en_analyse", "alerte_fraude"}
      [] d.etat = "en_analyse"    -> {"valide", "refuse", "alerte_fraude"}
      [] d.etat = "valide"        -> {}
      [] d.etat = "refuse"        -> {}
      [] d.etat = "alerte_fraude" -> {"en_analyse", "refuse"}
      [] OTHER                    -> {}

\* What a function of services.py did: the dossier it saved, the rows it
\* created, what it returned and the clock after its readings.
Effet(retour, d, resultats, audits, notifs, maintenant) ==
    [retour |-> retour, dossier |-> d, resultats |-> resultats,
     audits |-> audits, notifications |-> notifs, horloge |-> maintenant]

\* The row creer_audit_log creates for a change of etat.  The rows of the
\* tables are kept without the user they name: who made a request is in
\* appel.
AuditChangementEtat(utilisateur, ancien_etat, nouvel_etat, motif) ==
    [action |-> "changement_etat",
     modele |-> "DossierPret", donnees_avant |-> [etat |-> ancien_etat],
     donnees_apres |-> [etat |-> nouvel_etat], raison |-> motif]

\* The notification to the conseiller of the dossier, if it has one.
NotificationEtat(d, nouvel_etat) ==
    IF d.conseiller = None THEN <<>>
    ELSE <<[destinataire |-> "conseiller du dossier",
            type_notif   |-> IF nouvel_etat = "valide" THEN "success"
                             ELSE IF nouvel_etat \in {"refuse", "alerte_fraude"}
                             THEN "danger" ELSE "info",
            titre        |-> nouvel_etat]>>

\* changer_etat_dossier where the motif is written, and the dossier saved,
\* before the transition is validated.
changer_etat_dossier_MotifAvantValidation(d, nouvel_etat, utilisateur, motif, maintenant) ==
    IF nouvel_etat \notin transitions_possibles(d)
    THEN Effet(FALSE, [d EXCEPT !.motif_decision = motif], <<>>, <<>>, <<>>, maintenant)
    ELSE Effet(TRUE,
               [d EXCEPT !.etat = nouvel_etat,
                         !.motif_decision = motif,
                         !.date_analyse = IF nouvel_etat = "en_analyse"
                                          THEN <<maintenant>> ELSE @,
                         !.date_decision = IF nouvel_etat \in {"valide", "refuse", "alerte_fraude"}
                                           THEN <<maintenant>> ELSE @],
               <<>>,
               <<AuditChangementEtat(utilisateur, d.etat, nouvel_etat, motif)>>,
               NotificationEtat(d, nouvel_etat),
               maintenant + 1)

\* changer_etat_dossier on the dossier d; maintenant is what timezone.now()
\* returns, and time passes once it was read.
changer_etat_dossier(d, nouvel_etat, utilisateur, motif, maintenant) ==
    IF nouvel_etat \notin transitions_possibles(d)
    THEN Effet(FALSE, d, <<>>, <<>>, <<>>, maintenant)
    ELSE Effet(TRUE,
               [d EXCEPT !.etat = nouvel_etat,
                         !.motif_decision = motif,
                         !.date_analyse = IF nouvel_etat = "en_analyse"
                                          THEN <<maintenant>> ELSE @,
                         !.date_decision = IF nouvel_etat \in {"valide", "refuse", "alerte_fraude"}
                                           THEN <<maintenant>> ELSE @],
               <<>>,
               <<AuditChangementEtat(utilisateur, d.etat, nouvel_etat, motif)>>,
               NotificationEtat(d, nouvel_etat),
               maintenant + 1)

\* ResultatScoring.to_dict of the engine: the fields of the result, whose
\* numbers are already rounded.
to_dict(r) ==
    [score_global        |-> r.score_global,
     niveau_risque       |-> r.niveau_risque,
     score_endettement   |-> r.score_endettement,
     score_historique    |-> r.score_historique,
     score_stabilite     |-> r.score_stabilite,
     score_coherence     |-> r.score_coherence,
     score_fraude        |-> r.score_fraude,
     ratio_endettement   |-> r.ratio_endettement,
     alertes             |-> r.alertes,
     recommandation      |-> r.recommandation,
     explication         |-> r.explication,
     alerte_fraude       |-> r.alerte_fraude,
     details             |-> r.details,
     facteurs_importants |-> r.facteurs_importants]

\* The row of ResultatScoring that calculer_score_dossier creates and
\* returns.
ResultatDb(r, utilisateur) ==
    [score_global      |-> r.score_global,
     score_endettement |-> r.score_endettement,
     score_historique  |-> r.score_historique,
     score_stabilite   |-> r.score_stabilite,
     score_coherence   |-> r.score_coherence,
     score_fraude      |-> r.score_fraude,
     ratio_endettement |-> r.ratio_endettement,
     niveau_risque     |-> r.niveau_risque,
     recommandation    |-> r.recommandation,
     explication       |-> r.explication,
     alerte_fraude     |-> r.alerte_fraude,
     alertes           |-> r.alertes,
     details           |-> r.details]

\* The row creer_audit_log creates for a scoring of the dossier d.
AuditCalculScore(d, r, utilisateur) ==
    [action        |-> "calcul_score",
     modele        |-> "DossierPret",
     donnees_avant |-> IF d.score_risque # None
                       THEN <<[score_risque  |-> d.score_risque[1],
                               niveau_risque |-> d.niveau_risque]>>
                       ELSE None,
     donnees_apres |-> [score_risque  |-> r.score_global,
                        score_fraude  |-> r.score_fraude,
                        niveau_risque |-> r.niveau_risque],
     raison        |-> ""]

\* calculer_score_dossier once the engine has returned r for the
\* ProfilClient of the dossier d: the dossier is saved with the scores, a
\* ResultatScoring and an audit row are created, and the user is notified
\* of a fraud.  An exception of the engine leaves the function before any
\* of it.
calculer_score_dossier(d, utilisateur, r, maintenant) ==
    IF ~Reussi(r) THEN Effet(r, d, <<>>, <<>>, <<>>, maintenant)
    ELSE Effet(ResultatDb(r, utilisateur),
               [d EXCEPT !.score_risque = <<r.score_global>>,
                         !.score_fraude = <<r.score_fraude>>,
                         !.niveau_risque = r.niveau_risque,
                         !.recommandation = r.recommandation,
                         !.explication_score = r.explication,
                         !.alerte_fraude = r.alerte_fraude,
                         !.details_scoring = <<to_dict(r)>>],
               <<ResultatDb(r, utilisateur)>>,
               <<AuditCalculScore(d, r, utilisateur)>>,
               IF r.alerte_fraude
               THEN <<[destinataire |-> "utilisateur", type_notif |-> "danger",
                       titre |-> "Alerte Fraude"]>>
               ELSE <<>>,
               maintenant)


\* What a view did: its response, what changer_etat_dossier returned if the
\* view called it (None if it did not), and the effect e on the tables.
Vue(sortie, changement, e) ==
    [sortie |-> sortie, changement |-> changement, dossier |-> e.dossier,
     resultats |-> e.resultats, audits |-> e.audits,
     notifications |-> e.notifications, horloge |-> e.horloge]

\* A view that returns before it changes anything.
SansEffet(sortie, d, maintenant) ==
    Vue(sortie, None, Effet(FALSE, d, <<>>, <<>>, <<>>, maintenant))

\* The effect of calculer_score_dossier (s) followed by that of
\* changer_etat_dossier (c) on the dossier the first one saved.
ScorePuisEtat(sortie, s, c) ==
    Vue(sortie, <<c.retour>>,
        Effet(c.retour, c.dossier, s.resultats, s.audits \o c.audits,
              s.notifications \o c.notifications, c.horloge))

\* calculer_score_view after calculer_score_dossier has returned its row:
\* s is its effect, s.dossier the dossier in the hands of the view.
SuiteDuScore(utilisateur, s) ==
    IF s.retour.alerte_fraude /\ s.dossier.etat = "soumis"
    THEN ScorePuisEtat("ALERTE FRAUDE, Score calcule", s,
             changer_etat_dossier(s.dossier, "alerte_fraude", utilisateur,
                 "Alerte fraude detectee par le moteur de scoring", s.horloge))
    ELSE IF s.dossier.etat = "soumis"
    THEN ScorePuisEtat("Score calcule", s,
             changer_etat_dossier(s.dossier, "en_analyse", utilisateur,
                 "Passage automatique en analyse apres calcul du score", s.horloge))
    ELSE Vue("Score calcule", None, s)

\* calculer_score_view; r is what calculer_score_risque returns for the
\* ProfilClient of the dossier, and an exception of it is caught by the view.
calculer_score_view(d, utilisateur, r, maintenant) ==
    IF get_user_role(utilisateur) = "conseiller" /\ d.conseiller # <<utilisateur>>
    THEN SansEffet("Vous ne pouvez scorer que vos propres dossiers", d, maintenant)
    ELSE IF get_user_role(utilisateur) = "gestionnaire"
    THEN SansEffet("Les gestionnaires ne peuvent pas lancer le scoring", d, maintenant)
    ELSE IF d.etat \notin {"soumis", "en_analyse"}
    THEN SansEffet("Le scoring ne peut etre calcule que pour les dossiers soumis ou en analyse",
                   d, maintenant)
    ELSE IF ~Reussi(r) THEN SansEffet("Erreur", d, maintenant)
    ELSE SuiteDuScore(utilisateur,
                      calculer_score_dossier(d, utilisateur, r, maintenant))

\* DossierPretViewSet.calculer_score, POST /api/dossiers/{id}/calculer_score/:
\* an exception of the engine is not caught, the request fails.
calculer_score(d, utilisateur, r, maintenant) ==
    IF ~Reussi(r) THEN SansEffet("500", d, maintenant)
    ELSE Vue("200", None, calculer_score_dossier(d, utilisateur, r, maintenant))

\* changer_etat_view for a POST with a valid form (another request changes
\* nothing).
changer_etat_view(d, utilisateur, nouvel_etat, motif, maintenant) ==
    IF ~user_can_change_etat(utilisateur)
    THEN SansEffet("Seul le Manager Risque peut valider ou refuser un dossier",
                   d, maintenant)
    ELSE IF changer_etat_dossier(d, nouvel_etat, utilisateur, motif, maintenant).retour
    THEN Vue("Etat change", <<TRUE>>,
             changer_etat_dossier(d, nouvel_etat, utilisateur, motif, maintenant))
    ELSE Vue("Transition non autorisee", <<FALSE>>,
             changer_etat_dossier(d, nouvel_etat, utilisateur, motif, maintenant))

\* DossierPretViewSet.changer_etat, POST /api/dossiers/{id}/changer_etat/,
\* with data the WorkflowSerializer accepts.
changer_etat(d, utilisateur, nouvel_etat, motif, maintenant) ==
    IF changer_etat_dossier(d, nouvel_etat, utilisateur, motif, maintenant).retour
    THEN Vue("200 success", <<TRUE>>,
             changer_etat_dossier(d, nouvel_etat, utilisateur, motif, maintenant))
    ELSE Vue("400 Transition non autorisee", <<FALSE>>,
             changer_etat_dossier(d, nouvel_etat, utilisateur, motif, maintenant))

-----------------------------------------------------------------------------
(* The requests *)

MaxAudit == 3

\* The motif of the form: ChangerEtatForm and WorkflowSerializer require one.
Motifs == {"motif de la decision"}

\* Two clients and loans that the forms accept (a tenor of 1 month at
\* least, an amount of 10 000 at least, no negative field): the salaried
\* client of the example of the command line and the entreprise.
ProfilsDesDossiers ==
    {p \in QuelquesProfils : /\ p.duree_pret_mois >= 1
                             /\ p.montant_demande >= 10000
                             /\ p.anciennete_emploi = 40}

\* The request handled by fn, with what the view v did, written to the
\* tables.  etat is the etat of the dossier when the request arrived.
Requete(fn, entree, v) ==
    /\ Len(audit_log) + Len(v.audits) <= MaxAudit
    /\ appel' = [fn |-> fn, entree |-> entree, etat |-> dossier.etat,
                 locaux |-> [leve |-> "", changement |-> v.changement],
                 sortie |-> v.sortie]
    /\ dossier' = v.dossier
    /\ resultats_scoring' = resultats_scoring \o v.resultats
    /\ audit_log' = audit_log \o v.audits
    /\ notifications' = notifications \o v.notifications
    /\ horloge' = v.horloge

CalculerScoreView(utilisateur) ==
    /\ Requete("calculer_score_view", [utilisateur |-> utilisateur],
               calculer_score_view(dossier, utilisateur,
                   calculer_score_risque(profil, POIDS, SEUILS_RISQUE,
                                         SEUILS_MONTANT_PROFIL),
                   horloge))
    /\ UNCHANGED <<POIDS, SEUILS_RISQUE, SEUILS_MONTANT_PROFIL, profil, journal>>

ApiCalculerScore(utilisateur) ==
    /\ Requete("calculer_score", [utilisateur |-> utilisateur],
               calculer_score(dossier, utilisateur,
                   calculer_score_risque(profil, POIDS, SEUILS_RISQUE,
                                         SEUILS_MONTANT_PROFIL),
                   horloge))
    /\ UNCHANGED <<POIDS, SEUILS_RISQUE, SEUILS_MONTANT_PROFIL, profil, journal>>

ChangerEtatView(utilisateur, nouvel_etat, motif) ==
    /\ Requete("changer_etat_view",
               [utilisateur |-> utilisateur, nouvel_etat |-> nouvel_etat, motif |-> motif],
               changer_etat_view(dossier, utilisateur, nouvel_etat, motif, horloge))
    /\ UNCHANGED <<POIDS, SEUILS_RISQUE, SEUILS_MONTANT_PROFIL, profil, journal>>

ApiChangerEtat(utilisateur, nouvel_etat, motif) ==
    /\ Requete("changer_etat",
               [utilisateur |-> utilisateur, nouvel_etat |-> nouvel_etat, motif |-> motif],
               changer_etat(dossier, utilisateur, nouvel_etat, motif, horloge))
    /\ UNCHANGED <<POIDS, SEUILS_RISQUE, SEUILS_MONTANT_PROFIL, profil, journal>>

\* ClientViewSet, PUT /api/clients/{id}/: the fields of the client are
\* replaced by those of the request.
ModifierClient(p) ==
    /\ p # profil
    /\ profil' = p
    /\ appel' = [fn |-> "ClientViewSet.update", entree |-> p, etat |-> dossier.etat,
                 locaux |-> [leve |-> "", changement |-> None], sortie |-> "200"]
    /\ UNCHANGED <<POIDS, SEUILS_RISQUE, SEUILS_MONTANT_PROFIL, journal, tables_django>>

InitDossiers ==
    /\ POIDS = POIDS_INITIAL
    /\ SEUILS_RISQUE = SEUILS_RISQUE_INITIAL
    /\ SEUILS_MONTANT_PROFIL = SEUILS_MONTANT_PROFIL_INITIAL
    /\ profil \in ProfilsDesDossiers
    /\ appel = Aucun
    /\ journal = <<>>
    /\ BaseInitiale

NextDossiers ==
    \/ \E u \in Utilisateurs : CalculerScoreView(u)
    \/ \E u \in Utilisateurs : ApiCalculerScore(u)
    \/ \E u \in Utilisateurs : \E e \in ETAT_CHOICES : \E m \in Motifs :
          ChangerEtatView(u, e, m)
    \/ \E u \in Utilisateurs : \E e \in ETAT_CHOICES : \E m \in Motifs :
          ApiChangerEtat(u, e, m)
    \/ \E p \in ProfilsDesDossiers : ModifierClient(p)

SpecDossiers == InitDossiers /\ [][NextDossiers]_vars


-----------------------------------------------------------------------------
(* Properties of the workflow, under SpecDossiers *)

\* C26: whatever the requests, the etat of a dossier only moves from soumis
\* to en_analyse or alerte_fraude, from en_analyse to valide, refuse or
\* alerte_fraude, and from alerte_fraude to en_analyse or refuse; it never
\* leaves valide or refuse.
C26_EtatSuitLesTransitions ==
    [][dossier'.etat # dossier.etat =>
          <<dossier.etat, dossier'.etat>> \in
              {<<"soumis", "en_analyse">>, <<"soumis", "alerte_fraude">>,
               <<"en_analyse", "valide">>, <<"en_analyse", "refuse">>,
               <<"en_analyse", "alerte_fraude">>,
               <<"alerte_fraude", "en_analyse">>,
               <<"alerte_fraude", "refuse">>}]_vars

\* A dossier that went from soumis to alerte_fraude, back to en_analyse and
\* then to valide, where a request for another etat has just been refused.
C26_Temoin ==
    /\ dossier.etat = "valide"
    /\ Len(audit_log) >= 3
    /\ \E i, j, k \in DOMAIN audit_log :
          /\ i < j /\ j < k
          /\ audit_log[i].action = "changement_etat"
          /\ audit_log[i].donnees_apres.etat = "alerte_fraude"
          /\ audit_log[j].action = "changement_etat"
          /\ audit_log[j].donnees_avant.etat = "alerte_fraude"
          /\ audit_log[j].donnees_apres.etat = "en_analyse"
          /\ audit_log[k].action = "changement_etat"
          /\ audit_log[k].donnees_apres.etat = "valide"
    /\ appel.fn \in {"changer_etat_view", "changer_etat"}
    /\ appel.etat = "valide"
    /\ appel.locaux.changement = <<FALSE>>


\* The rows of the audit log that record a change of etat.
ChangementsEtat(audits) ==
    SelectSeq(audits, LAMBDA a : a.action = "changement_etat")

\* C27: when changer_etat_dossier is asked, by changer_etat_view or by the
\* REST changer_etat, for an etat that the table of transitions does not
\* allow from the current etat (the current etat itself included), it returns
\* False and the dossier (etat, motif_decision, date_analyse, date_decision),
\* the audit log and the notifications are as before; whenever it returns
\* True, also when calculer_score_view called it, exactly one audit row of a
\* change of etat is created, and it records the old and the new etat.
C27_TransitionRefuseeSansEffet ==
    [][(appel'.fn \in {"changer_etat_view", "changer_etat", "calculer_score_view"}
        /\ appel'.locaux.changement # None) =>
          /\ appel'.fn \in {"changer_etat_view", "changer_etat"} =>
                (appel'.locaux.changement = <<FALSE>>) <=>
                    (<<dossier.etat, appel'.entree.nouvel_etat>> \notin
                        {<<"soumis", "en_analyse">>, <<"soumis", "alerte_fraude">>,
                         <<"en_analyse", "valide">>, <<"en_analyse", "refuse">>,
                         <<"en_analyse", "alerte_fraude">>,
                         <<"alerte_fraude", "en_analyse">>,
                         <<"alerte_fraude", "refuse">>})
          /\ appel'.locaux.changement = <<FALSE>> =>
                /\ dossier'.etat = dossier.etat
                /\ dossier'.motif_decision = dossier.motif_decision
                /\ dossier'.date_analyse = dossier.date_analyse
                /\ dossier'.date_decision = dossier.date_decision
                /\ dossier' = dossier
                /\ audit_log' = audit_log
                /\ notifications' = notifications
          /\ appel'.locaux.changement = <<TRUE>> =>
                /\ dossier'.etat # dossier.etat
                /\ ChangementsEtat(audit_log') = ChangementsEtat(audit_log) \o
                       <<audit_log'[Len(audit_log')]>>
                /\ audit_log'[Len(audit_log')].action = "changement_etat"
                /\ audit_log'[Len(audit_log')].donnees_avant = [etat |-> dossier.etat]
                /\ audit_log'[Len(audit_log')].donnees_apres = [etat |-> dossier'.etat]]_vars

\* A manager has just asked for the etat en_analyse for a dossier that is
\* in en_analyse, with another motif than the one the dossier holds:
\* changer_etat_dossier returned False.
C27_Temoin ==
    /\ appel.fn \in {"changer_etat_view", "changer_etat"}
    /\ appel.entree.utilisateur = "m1"
    /\ appel.etat = "en_analyse"
    /\ appel.entree.nouvel_etat = "en_analyse"
    /\ appel.locaux.changement = <<FALSE>>
    /\ dossier.etat = "en_analyse"
    /\ dossier.motif_decision # appel.entree.motif
    /\ dossier.date_analyse # None
    /\ Len(audit_log) >= 1


\* C28: when calculer_score_view has scored a dossier, the dossier is in
\* alerte_fraude if the fraud flag was raised, and otherwise a dossier that
\* was soumis is in en_analyse; the view never scores a dossier that is
\* valide, refuse or in alerte_fraude.
C28_EtatApresLeScore ==
    (/\ appel.fn = "calculer_score_view"
     /\ appel.sortie \in {"Score calcule", "ALERTE FRAUDE, Score calcule"}) =>
        /\ appel.etat \notin {"valide", "refuse", "alerte_fraude"}
        /\ dossier.alerte_fraude => dossier.etat = "alerte_fraude"
        /\ (~dossier.alerte_fraude /\ appel.etat = "soumis") =>
               dossier.etat = "en_analyse"


\* C29: once a dossier is valide or refuse, its stored score_risque,
\* niveau_risque, recommandation and alerte_fraude never change again,
\* whatever scoring requests arrive through the web view or the REST API.
C29_ScoresFigesApresDecision ==
    [][dossier.etat \in {"valide", "refuse"} =>
          /\ dossier'.score_risque = dossier.score_risque
          /\ dossier'.niveau_risque = dossier.niveau_risque
          /\ dossier'.recommandation = dossier.recommandation
          /\ dossier'.alerte_fraude = dossier.alerte_fraude]_vars

\* C30: only a manager_risque or an admin moves a dossier to valide or
\* refuse, and a request of a conseiller or of a gestionnaire to
\* changer_etat_view or to the REST changer_etat never changes the etat of a
\* dossier.
C30_DecisionReserveeAuManager ==
    [][dossier'.etat # dossier.etat =>
          /\ dossier'.etat \in {"valide", "refuse"} =>
                get_user_role(appel'.entree.utilisateur) \in {"manager_risque", "admin"}
          /\ appel'.fn \in {"changer_etat_view", "changer_etat"} =>
                get_user_role(appel'.entree.utilisateur)
                    \notin {"conseiller", "gestionnaire"}]_vars

=============================================================================
